---- MODULE Spec2Model ----
(***************************************************************************)
(* A model of the storage engine: transaction manager with its waits-for   *)
(* graph, pager, extendible hash index, B+-tree index and recovery         *)
(* manager.  Every subsystem has its own specification over the common     *)
(* variables; the variables of the other subsystems stay at their initial  *)
(* values.                                                                 *)
(***************************************************************************)
EXTENDS Integers, Sequences, FiniteSets, TLC

(***************************************************************************)
(* Bounds of the model.                                                    *)
(***************************************************************************)
NumClients == 2
NumResources == 2

Clients == 1..NumClients
Resources == 1..NumResources

Range(s) == {s[i] : i \in 1..Len(s)}
MinOf(S) == CHOOSE x \in S : \A y \in S : x <= y
MaxOf(S) == CHOOSE x \in S : \A y \in S : y <= x

(* Every ordering of a finite set, as sequences without repetition: the    *)
(* orders in which a Go map can be iterated.                               *)
Orderings(S) ==
    {s \in [1..Cardinality(S) -> S] : \A i, j \in 1..Cardinality(S) : s[i] = s[j] => i = j}

(***************************************************************************)
(*                        TRANSACTION MANAGER                              *)
(***************************************************************************)
R_LOCK == "R"
W_LOCK == "W"
NoLock == "none"
NoClient == 0

VARIABLES
    transactions,  \* tm.transactions: the clients with a registered transaction
    resources,     \* Transaction.resources of every client: resource -> lock type
    edges,         \* tm.pGraph.edges: sequence of [from, to]
    tmMtx,         \* the client that holds tm.tmMtx for writing, or NoClient
    lmHeld,        \* lock manager: resource -> [mode, count] of the granted locks
    lmQueue,       \* lock manager: resource -> FIFO queue of waiting [c, mode]
    inLock,        \* client -> the [r, mode] it passed to lm.Lock and has not
                   \* returned from, or NoReq
    tmRet,         \* the last call that returned: [c, op, res]
    tmPanic        \* the process has died of a panic or a fatal runtime error

tmVars == <<transactions, resources, edges, tmMtx, lmHeld, lmQueue, inLock, tmRet, tmPanic>>

NoReq == [r |-> 0, mode |-> NoLock]
NoRet == [c |-> NoClient, op |-> "none", res |-> "none"]

InitTM ==
    /\ transactions = {}
    /\ resources = [c \in Clients |-> [r \in Resources |-> NoLock]]
    /\ edges = <<>>
    /\ tmMtx = NoClient
    /\ lmHeld = [r \in Resources |-> [mode |-> NoLock, count |-> 0]]
    /\ lmQueue = [r \in Resources |-> <<>>]
    /\ inLock = [c \in Clients |-> NoReq]
    /\ tmRet = NoRet
    /\ tmPanic = FALSE

(* ---- waits-for graph ---- *)
AddEdge(g, from, to) == Append(g, [from |-> from, to |-> to])

removeEdge(l, i) ==
    SubSeq([l EXCEPT ![i] = l[Len(l)]], 1, Len(l) - 1)

RemoveEdge(g, from, to) ==
    LET hits == {i \in 1..Len(g) : g[i] = [from |-> from, to |-> to]}
    IN IF hits = {} THEN g ELSE removeEdge(g, MinOf(hits))

RECURSIVE dfs(_, _, _)
dfs(g, from, seen) ==
    LET outs == {i \in 1..Len(g) : g[i].from = from}
    IN IF outs = {} THEN FALSE
       ELSE LET e == g[MinOf(outs)]
            IN IF e.to \in Range(seen) THEN TRUE
               ELSE dfs(g, e.to, Append(seen, e.from))

DetectCycle(g) == \E i \in 1..Len(g) : dfs(g, g[i].from, <<>>)

RECURSIVE AddEdges(_, _, _)
AddEdges(g, froms, to) ==
    IF froms = <<>> THEN g ELSE AddEdges(AddEdge(g, Head(froms), to), Tail(froms), to)

RECURSIVE RemoveEdges(_, _, _)
RemoveEdges(g, froms, to) ==
    IF froms = <<>> THEN g ELSE RemoveEdges(RemoveEdge(g, Head(froms), to), Tail(froms), to)

(* ---- lock manager ---- *)
LMCompatible(held, mode) ==
    \/ held.mode = NoLock
    \/ held.mode = R_LOCK /\ mode = R_LOCK

LMGrant(held, mode) == [mode |-> mode, count |-> held.count + 1]

LMRelease(held) ==
    IF held.count <= 1 THEN [mode |-> NoLock, count |-> 0]
    ELSE [held EXCEPT !.count = held.count - 1]

(* Wake the waiters at the head of the queue that the state now admits.    *)
RECURSIVE LMWake(_, _)
LMWake(held, queue) ==
    IF queue # <<>> /\ LMCompatible(held, Head(queue).mode)
    THEN LMWake(LMGrant(held, Head(queue).mode), Tail(queue))
    ELSE [held |-> held, queue |-> queue]

LMUnlockOne(h, q, r) ==
    LET w == LMWake(LMRelease(h[r]), q[r])
    IN [held |-> [h EXCEPT ![r] = w.held], queue |-> [q EXCEPT ![r] = w.queue]]

RECURSIVE LMUnlockAll(_, _, _)
LMUnlockAll(h, q, rs) ==
    IF rs = {} THEN [held |-> h, queue |-> q]
    ELSE LET r == CHOOSE x \in rs : TRUE
             n == LMUnlockOne(h, q, r)
         IN LMUnlockAll(n.held, n.queue, rs \ {r})

Queued(c) == \E r \in Resources : \E i \in 1..Len(lmQueue[r]) : lmQueue[r][i].c = c

(* ---- transaction manager ---- *)
discoverTransactions(r, lType) ==
    {t \in transactions :
        resources[t][r] # NoLock /\ (resources[t][r] = W_LOCK \/ lType = W_LOCK)}

Idle(c) == ~tmPanic /\ inLock[c] = NoReq

Begin(c) ==
    /\ Idle(c)
    /\ tmMtx = NoClient
    /\ IF c \in transactions
       THEN /\ tmRet' = [c |-> c, op |-> "Begin", res |-> "ALREADY_BEGAN"]
            /\ UNCHANGED transactions
       ELSE /\ transactions' = transactions \cup {c}
            /\ tmRet' = [c |-> c, op |-> "Begin", res |-> "OK"]
    /\ UNCHANGED <<resources, edges, tmMtx, lmHeld, lmQueue, inLock, tmPanic>>

(* What RUnlock of the write-locked tmMtx does: a fatal runtime error when *)
(* no reader is waiting, else the write lock stays held for ever.          *)
RUnlockOfWriteLocked == {"fatal", "leaked"}

(* Mutant: a request for a resource already held always returns OK.        *)
LockHeld_NoUpgradeCheck(c, r, lType) ==
    /\ tmRet' = [c |-> c, op |-> "Lock", res |-> "OK"]
    /\ UNCHANGED <<edges, tmMtx, lmHeld, lmQueue, inLock, tmPanic>>

(* Lock of a resource the transaction already holds.                       *)
LockHeld(c, r, lType) ==
    /\ tmRet' = [c |-> c, op |-> "Lock", res |->
                   IF lType = W_LOCK /\ resources[c][r] = R_LOCK
                   THEN "UPGRADE_FORBIDDEN" ELSE "OK"]
    /\ UNCHANGED <<edges, tmMtx, lmHeld, lmQueue, inLock, tmPanic>>

(* Lock up to its call of lm.Lock.                                         *)
LockCall(c, r, lType) ==
    /\ Idle(c)
    /\ tmMtx = NoClient
    /\ IF c \notin transactions
       THEN /\ tmRet' = [c |-> c, op |-> "Lock", res |-> "NO_TX"]
            /\ UNCHANGED <<edges, tmMtx, lmHeld, lmQueue, inLock, tmPanic>>
       ELSE IF resources[c][r] # NoLock
       THEN LockHeld(c, r, lType)
       ELSE \E conflicts \in Orderings(discoverTransactions(r, lType)) :
            LET g1 == AddEdges(edges, conflicts, c)
                cycle == DetectCycle(g1)
                g2 == RemoveEdges(g1, conflicts, c)
            IN /\ edges' = g2
               /\ IF cycle
                  THEN \E outcome \in RUnlockOfWriteLocked :
                       /\ tmPanic' = (outcome = "fatal")
                       /\ tmMtx' = c
                       /\ tmRet' = [c |-> c, op |-> "Lock", res |->
                                      IF outcome = "fatal" THEN "PANIC" ELSE "DEADLOCK"]
                       /\ UNCHANGED <<lmHeld, lmQueue, inLock>>
                  ELSE /\ tmMtx' = c
                       /\ inLock' = [inLock EXCEPT ![c] = [r |-> r, mode |-> lType]]
                       /\ IF LMCompatible(lmHeld[r], lType) /\ lmQueue[r] = <<>>
                          THEN /\ lmHeld' = [lmHeld EXCEPT ![r] = LMGrant(lmHeld[r], lType)]
                               /\ UNCHANGED lmQueue
                          ELSE /\ lmQueue' = [lmQueue EXCEPT ![r] =
                                                Append(@, [c |-> c, mode |-> lType])]
                               /\ UNCHANGED lmHeld
                       /\ UNCHANGED <<tmRet, tmPanic>>
    /\ UNCHANGED <<transactions, resources>>

(* Mutant: the resource is recorded before the lock manager granted it.    *)
LockReturn_BeforeGrant(c) ==
    /\ ~tmPanic
    /\ inLock[c] # NoReq
    /\ resources' = [resources EXCEPT ![c][inLock[c].r] = inLock[c].mode]
    /\ inLock' = [inLock EXCEPT ![c] = NoReq]
    /\ tmMtx' = NoClient
    /\ tmRet' = [c |-> c, op |-> "Lock", res |-> "OK"]
    /\ UNCHANGED <<transactions, edges, lmHeld, lmQueue, tmPanic>>

(* lm.Lock has returned: record the resource and release tmMtx.            *)
LockReturn(c) ==
    /\ ~tmPanic
    /\ inLock[c] # NoReq
    /\ ~Queued(c)
    /\ resources' = [resources EXCEPT ![c][inLock[c].r] = inLock[c].mode]
    /\ inLock' = [inLock EXCEPT ![c] = NoReq]
    /\ tmMtx' = NoClient
    /\ tmRet' = [c |-> c, op |-> "Lock", res |-> "OK"]
    /\ UNCHANGED <<transactions, edges, lmHeld, lmQueue, tmPanic>>

(* The return paths of Lock, and what each does to tm.tmMtx: the paths     *)
(* that return before the conflict search never take it, the other two     *)
(* take it with Lock(); the deadlock path gives it back with RUnlock(),    *)
(* the granting path with Unlock().                                        *)
LockPaths == {"unknown client", "already held", "upgrade refused", "deadlock", "granted"}

LockAcquires(path) ==
    IF path \in {"deadlock", "granted"} THEN "Lock" ELSE "none"

LockReleases(path) ==
    CASE path = "deadlock" -> "RUnlock"
      [] path = "granted"  -> "Unlock"
      [] OTHER             -> "none"

Unlock(c, r, lType) ==
    /\ Idle(c)
    /\ tmMtx = NoClient
    /\ IF c \notin transactions
       THEN \* tran is nil: tran.WUnlock() dereferences it
            /\ tmPanic' = TRUE
            /\ tmRet' = [c |-> c, op |-> "Unlock", res |-> "PANIC"]
            /\ UNCHANGED <<resources, lmHeld, lmQueue>>
       ELSE IF resources[c][r] = NoLock
       THEN /\ tmRet' = [c |-> c, op |-> "Unlock", res |-> "OK"]
            /\ UNCHANGED <<resources, lmHeld, lmQueue, tmPanic>>
       ELSE IF lType # resources[c][r]
       THEN /\ tmRet' = [c |-> c, op |-> "Unlock", res |-> "MISMATCH"]
            /\ UNCHANGED <<resources, lmHeld, lmQueue, tmPanic>>
       ELSE LET n == LMUnlockOne(lmHeld, lmQueue, r)
            IN /\ lmHeld' = n.held
               /\ lmQueue' = n.queue
               /\ resources' = [resources EXCEPT ![c][r] = NoLock]
               /\ tmRet' = [c |-> c, op |-> "Unlock", res |-> "OK"]
               /\ UNCHANGED tmPanic
    /\ UNCHANGED <<transactions, edges, tmMtx, inLock>>

(* The resources a transaction records as held.                            *)
HeldBy(c) == {r \in Resources : resources[c][r] # NoLock}

(* Mutant: Commit forgets the transaction without unlocking its resources. *)
Commit_KeepLocks(c) ==
    /\ Idle(c)
    /\ tmMtx = NoClient
    /\ IF c \notin transactions
       THEN /\ tmRet' = [c |-> c, op |-> "Commit", res |-> "NO_TX"]
            /\ UNCHANGED <<transactions, resources>>
       ELSE /\ transactions' = transactions \ {c}
            /\ resources' = [resources EXCEPT ![c] = [r \in Resources |-> NoLock]]
            /\ tmRet' = [c |-> c, op |-> "Commit", res |-> "OK",
                         released |-> HeldBy(c)]
    /\ UNCHANGED <<edges, tmMtx, inLock, tmPanic, lmHeld, lmQueue>>

(* The return record of a successful Commit also names the resources it    *)
(* unlocked.                                                               *)
Commit(c) ==
    /\ Idle(c)
    /\ tmMtx = NoClient
    /\ IF c \notin transactions
       THEN /\ tmRet' = [c |-> c, op |-> "Commit", res |-> "NO_TX"]
            /\ UNCHANGED <<transactions, resources, lmHeld, lmQueue>>
       ELSE LET n == LMUnlockAll(lmHeld, lmQueue, HeldBy(c))
            IN /\ lmHeld' = n.held
               /\ lmQueue' = n.queue
               /\ transactions' = transactions \ {c}
               /\ resources' = [resources EXCEPT ![c] = [r \in Resources |-> NoLock]]
               /\ tmRet' = [c |-> c, op |-> "Commit", res |-> "OK",
                            released |-> HeldBy(c)]
    /\ UNCHANGED <<edges, tmMtx, inLock, tmPanic>>

LockTypes == {R_LOCK, W_LOCK}

(***************************************************************************)
(*                 WAITS-FOR GRAPH, driven on its own                      *)
(***************************************************************************)
NumVertices == 3    \* the transactions that can be endpoints of an edge
MaxEdges == 3       \* the most edges in the graph

Vertices == 1..NumVertices

VARIABLES
    gEdges,        \* Graph.edges of a graph of its own: sequence of [from, to]
    gRet           \* the last Graph call: [op, res]

grVars == <<gEdges, gRet>>

InitGraph ==
    /\ gEdges = <<>>
    /\ gRet = [op |-> "NewGraph", res |-> FALSE]

GraphAddEdge(from, to) ==
    /\ Len(gEdges) < MaxEdges
    /\ from # to
    /\ gEdges' = AddEdge(gEdges, from, to)
    /\ gRet' = [op |-> "AddEdge", res |-> FALSE]

GraphRemoveEdge(from, to) ==
    /\ gEdges' = RemoveEdge(gEdges, from, to)
    /\ gRet' = [op |-> "RemoveEdge", res |-> gEdges' = gEdges]

GraphDetectCycle ==
    /\ gRet' = [op |-> "DetectCycle", res |-> DetectCycle(gEdges)]
    /\ UNCHANGED gEdges

(***************************************************************************)
(*                               PAGER                                     *)
(***************************************************************************)
NumFrames == 2      \* MAXPAGES, the number of frames of the buffer pool
MaxPN == 2          \* the largest page number asked for
MaxPins == 2        \* the most pins taken on one page
MaxVal == 1         \* page contents are 0..MaxVal; 0 is the zero-filled page
MaxFilePages == 1   \* the most pages of the file that Open finds

NOPAGE == -1
NoFrame == 0
Frames == 1..NumFrames
PageNums == 0..MaxPN
Values == 0..MaxVal

VARIABLES
    hasFile,       \* pager.file # nil
    fileClosed,    \* Close has closed the file (or found none to close)
    maxPageNum,    \* pager.maxPageNum
    freeList,      \* pager.freeList, head first
    unpinnedList,  \* pager.unpinnedList, head first
    pinnedList,    \* pager.pinnedList, head first
    pageTable,     \* pager.pageTable: page number -> frame, NoFrame when absent
    page,          \* frame -> [pagenum, pinCount, dirty, data]: the Page structs
    disk,          \* the file: sequence of page contents, page 0 first
    pgRet          \* what the last pager call returned

pgVars == <<hasFile, fileClosed, maxPageNum, freeList, unpinnedList, pinnedList, pageTable,
            page, disk, pgRet>>

InitPager ==
    /\ hasFile = FALSE
    /\ fileClosed = FALSE
    /\ maxPageNum = 0
    /\ freeList = [i \in 1..NumFrames |-> i]
    /\ unpinnedList = <<>>
    /\ pinnedList = <<>>
    /\ pageTable = [pn \in PageNums |-> NoFrame]
    /\ page = [f \in Frames |-> [pagenum |-> NOPAGE, pinCount |-> 0,
                                 dirty |-> FALSE, data |-> 0]]
    /\ disk = <<>>
    /\ pgRet = "none"

OnList(l, f) == \E i \in 1..Len(l) : l[i] = f
PopSelf(l, f) == SelectSeq(l, LAMBDA x : x # f)
PushTail(l, f) == Append(l, f)

(* file.WriteAt at offset pn*PAGESIZE: a write beyond the end leaves a     *)
(* hole of zero pages.                                                     *)
WriteAt(d, pn, v) ==
    [i \in 1..MaxOf({Len(d), pn + 1}) |->
        IF i = pn + 1 THEN v ELSE IF i <= Len(d) THEN d[i] ELSE 0]

Open(n) ==
    /\ ~hasFile
    /\ ~fileClosed
    /\ maxPageNum = 0
    /\ hasFile' = TRUE
    /\ disk' = [i \in 1..n |-> MaxVal]
    /\ maxPageNum' = n
    /\ pgRet' = "OK"
    /\ UNCHANGED <<fileClosed, freeList, unpinnedList, pinnedList, pageTable, page>>

(* The disk after FlushPage of frame f: WriteAt on a closed file fails and  *)
(* FlushPage does not look at its error.                                   *)
FlushedDisk(d, f) ==
    IF hasFile /\ page[f].dirty /\ ~fileClosed
    THEN WriteAt(d, page[f].pagenum, page[f].data) ELSE d

(* NewPage hands out whatever resident frame heads the lists, pinned or not. *)
NewPageFrame_AnyResident ==
    IF freeList # <<>> THEN Head(freeList)
    ELSE IF hasFile /\ unpinnedList \o pinnedList # <<>>
         THEN Head(unpinnedList \o pinnedList)
    ELSE NoFrame

(* NewPage: the frame it hands out, NoFrame when it fails.                 *)
NewPageFrame ==
    IF freeList # <<>> THEN Head(freeList)
    ELSE IF hasFile /\ unpinnedList # <<>> THEN Head(unpinnedList)
    ELSE NoFrame

(* ReadPageFromDisk fails when the pager has no file or the file is closed. *)
ReadFails == ~hasFile \/ fileClosed

GetPage(pn) ==
    IF pn < 0 THEN
        /\ pgRet' = "INVALID"
        /\ UNCHANGED <<hasFile, fileClosed, maxPageNum, freeList, unpinnedList, pinnedList,
                       pageTable, page, disk>>
    ELSE IF pageTable[pn] # NoFrame THEN
        LET f == pageTable[pn] IN
        /\ page[f].pinCount < MaxPins
        /\ IF OnList(unpinnedList, f)
           THEN /\ unpinnedList' = PopSelf(unpinnedList, f)
                /\ pinnedList' = PushTail(pinnedList, f)
           ELSE UNCHANGED <<unpinnedList, pinnedList>>
        /\ page' = [page EXCEPT ![f].pinCount = @ + 1]
        /\ pgRet' = "OK"
        /\ UNCHANGED <<hasFile, fileClosed, maxPageNum, freeList, pageTable, disk>>
    ELSE IF NewPageFrame = NoFrame THEN
        /\ pgRet' = "NO_FRAMES"
        /\ UNCHANGED <<hasFile, fileClosed, maxPageNum, freeList, unpinnedList, pinnedList,
                       pageTable, page, disk>>
    ELSE
        LET f == NewPageFrame
            src == IF freeList # <<>> THEN "free" ELSE "evict"
            free1 == IF src = "free" THEN Tail(freeList) ELSE freeList
            unp1 == IF src = "evict" THEN PopSelf(unpinnedList, f) ELSE unpinnedList
            disk1 == IF src = "evict" THEN FlushedDisk(disk, f) ELSE disk
            table1 == IF src = "evict"
                      THEN [pageTable EXCEPT ![page[f].pagenum] = NoFrame]
                      ELSE pageTable
            isNew == pn >= maxPageNum
            readData == IF pn < Len(disk1) THEN disk1[pn + 1] ELSE page[f].data
        IN
        /\ disk' = disk1
        /\ unpinnedList' = unp1
        /\ IF isNew THEN
              /\ maxPageNum' = maxPageNum + 1
              /\ page' = [page EXCEPT ![f] = [pagenum |-> pn, pinCount |-> 1,
                                              dirty |-> TRUE, data |-> @.data]]
              /\ freeList' = free1
              /\ pinnedList' = PushTail(pinnedList, f)
              /\ pageTable' = [table1 EXCEPT ![pn] = f]
              /\ pgRet' = "OK"
           ELSE IF ReadFails THEN
              /\ page' = [page EXCEPT ![f] = [pagenum |-> pn, pinCount |-> 1,
                                              dirty |-> FALSE, data |-> @.data]]
              /\ freeList' = PushTail(free1, f)
              /\ pageTable' = table1
              /\ pgRet' = "READ_ERROR"
              /\ UNCHANGED <<maxPageNum, pinnedList>>
           ELSE
              /\ page' = [page EXCEPT ![f] = [pagenum |-> pn, pinCount |-> 1,
                                              dirty |-> FALSE, data |-> readData]]
              /\ freeList' = free1
              /\ pinnedList' = PushTail(pinnedList, f)
              /\ pageTable' = [table1 EXCEPT ![pn] = f]
              /\ pgRet' = "OK"
              /\ UNCHANGED maxPageNum
        /\ UNCHANGED <<hasFile, fileClosed>>

(* Page.Put: one pin less; the frame moves to the tail of the unpinned     *)
(* list when the count reaches 0.                                          *)
Put(f) ==
    /\ OnList(pinnedList, f)
    /\ page' = [page EXCEPT ![f].pinCount = @ - 1]
    /\ IF page[f].pinCount = 1
       THEN /\ pinnedList' = PopSelf(pinnedList, f)
            /\ unpinnedList' = PushTail(unpinnedList, f)
       ELSE UNCHANGED <<pinnedList, unpinnedList>>
    /\ pgRet' = "OK"
    /\ UNCHANGED <<hasFile, fileClosed, maxPageNum, freeList, pageTable, disk>>

(* Page.Update by a holder of the page: new contents, marked dirty.        *)
UpdatePage(f, v) ==
    /\ OnList(pinnedList, f)
    /\ page' = [page EXCEPT ![f].data = v, ![f].dirty = TRUE]
    /\ pgRet' = "OK"
    /\ UNCHANGED <<hasFile, fileClosed, maxPageNum, freeList, unpinnedList, pinnedList,
                   pageTable, disk>>

FlushPage(f) ==
    /\ OnList(pinnedList, f) \/ OnList(unpinnedList, f)
    /\ disk' = FlushedDisk(disk, f)
    /\ page' = [page EXCEPT ![f].dirty = IF hasFile THEN FALSE ELSE @]
    /\ pgRet' = "OK"
    /\ UNCHANGED <<hasFile, fileClosed, maxPageNum, freeList, unpinnedList, pinnedList, pageTable>>

RECURSIVE FlushFrames(_, _)
FlushFrames(d, l) ==
    IF l = <<>> THEN d ELSE FlushFrames(FlushedDisk(d, Head(l)), Tail(l))

(* Pager.Close: flush every resident page, close the file if there is one. *)
Close ==
    /\ ~fileClosed
    /\ disk' = FlushFrames(disk, pinnedList \o unpinnedList)
    /\ page' = [f \in Frames |->
                  IF hasFile /\ (OnList(pinnedList, f) \/ OnList(unpinnedList, f))
                  THEN [page[f] EXCEPT !.dirty = FALSE] ELSE page[f]]
    /\ fileClosed' = TRUE
    /\ pgRet' = "OK"
    /\ UNCHANGED <<hasFile, maxPageNum, freeList, unpinnedList, pinnedList, pageTable>>

FlushAllPages ==
    /\ pinnedList \o unpinnedList # <<>>
    /\ disk' = FlushFrames(disk, pinnedList \o unpinnedList)
    /\ page' = [f \in Frames |->
                  IF hasFile /\ (OnList(pinnedList, f) \/ OnList(unpinnedList, f))
                  THEN [page[f] EXCEPT !.dirty = FALSE] ELSE page[f]]
    /\ pgRet' = "OK"
    /\ UNCHANGED <<hasFile, fileClosed, maxPageNum, freeList, unpinnedList, pinnedList, pageTable>>

(***************************************************************************)
(*                       EXTENDIBLE HASH TABLE                             *)
(***************************************************************************)
BUCKETSIZE == 2      \* entries of a bucket page at which Insert asks for a split
MaxKey == 3          \* keys are 0..MaxKey
MaxDepth == 5        \* no split is followed beyond this local depth
MaxBucketPages == 8  \* no split is followed beyond this many bucket pages
NumPoolFrames == 6   \* frames of the pool under the table
MaxBucketPins == 4   \* the most pins left on one bucket page

InitialDepth == 2
Keys == 0..MaxKey

(* The 64-bit mixing hash, on the keys of the model.                       *)
Mix(k) == <<11, 7, 27, 1, 5, 9, 2, 6>>[(k % 8) + 1]
Hasher(k, d) == Mix(k) % (2 ^ d)

VARIABLES
    hDepth,     \* table.depth
    hBuckets,   \* table.buckets: page number of slot i at index i + 1
    hPages,     \* bucket page pn at index pn + 1: [depth, entries] as stored
    hPins,      \* pin count of bucket page pn at index pn + 1
    hLive,      \* how many times <<key, value>> is inserted and not deleted
    hRet        \* what the last table call returned

htVars == <<hDepth, hBuckets, hPages, hPins, hLive, hRet>>

InitHash ==
    /\ hDepth = InitialDepth
    /\ hBuckets = [i \in 1..(2 ^ InitialDepth) |-> i - 1]
    /\ hPages = [i \in 1..(2 ^ InitialDepth) |-> [depth |-> InitialDepth, entries |-> <<>>]]
    /\ hPins = [i \in 1..(2 ^ InitialDepth) |-> 0]
    /\ hLive = [e \in Keys \X Values |-> 0]
    /\ hRet = [op |-> "none", res |-> "none", out |-> <<>>]

Table == [depth |-> hDepth, buckets |-> hBuckets, pages |-> hPages,
          pins |-> hPins, ovf |-> FALSE, emp |-> FALSE]

(* pager.GetPage under the table: a page that is not pinned needs a frame  *)
(* that is free or can be evicted.                                         *)
CanPin(pins, pn) ==
    \/ pn < Len(pins) /\ pins[pn + 1] > 0
    \/ Cardinality({i \in 1..Len(pins) : pins[i] > 0}) < NumPoolFrames

(* HashBucket.Find: index of the first entry with the key, 0 when absent.  *)
BucketFind(entries, k) ==
    LET hits == {i \in 1..Len(entries) : entries[i][1] = k}
    IN IF hits = {} THEN 0 ELSE MinOf(hits)

BucketDelete(entries, k) ==
    LET idx == BucketFind(entries, k)
    IN [i \in 1..(Len(entries) - 1) |-> IF i < idx THEN entries[i] ELSE entries[i + 1]]

(* HashBucket.Insert of a key the bucket does not hold.                    *)
BucketInsert(entries, k, v) == Append(entries, <<k, v>>)

Reverse(l) == [i \in 1..Len(l) |-> l[Len(l) + 1 - i]]

ExtendTable(t) == [t EXCEPT !.depth = @ + 1, !.buckets = @ \o @]

(* Split of the bucket object (page pn, in-memory depth) reached by hash.  *)
RECURSIVE Split(_, _, _, _)
Split(t0, pn, depth, hash) ==
    LET t == IF t0.pages[pn + 1].entries = <<>> THEN [t0 EXCEPT !.emp = TRUE] ELSE t0 IN
    IF ~CanPin(t.pins, Len(t.pages)) THEN t
    ELSE IF depth + 1 > MaxDepth \/ Len(t.pages) >= MaxBucketPages
         THEN [t EXCEPT !.ovf = TRUE]
    ELSE
    LET newPN == Len(t.pages)
        d1 == depth + 1
        update_size == 2 ^ d1
        half == update_size \div 2
        old == t.pages[pn + 1].entries
        Moves(e) == (Hasher(e[1], d1) % update_size) - half >= 0
        moved == Reverse(SelectSeq(old, Moves))
        kept == SelectSeq(old, LAMBDA e : ~Moves(e))
        t1 == IF d1 > t.depth THEN ExtendTable(t) ELSE t
        s0 == hash % update_size
        starting_num == IF s0 - half >= 0 THEN s0 - half ELSE s0
        dir == [i \in 1..Len(t1.buckets) |->
                  IF i - 1 >= starting_num /\ (i - 1 - starting_num) % update_size = 0
                  THEN pn
                  ELSE IF i - 1 >= starting_num + half
                          /\ (i - 1 - starting_num - half) % update_size = 0
                  THEN newPN
                  ELSE t1.buckets[i]]
        t2 == [t1 EXCEPT !.buckets = dir,
                         !.pages = Append([@ EXCEPT ![pn + 1] =
                                              [depth |-> d1, entries |-> kept]],
                                          [depth |-> depth, entries |-> moved]),
                         !.pins = Append(@, 1)]
        t3 == IF moved = <<>> THEN Split(t2, pn, d1, starting_num) ELSE t2
        t4 == IF t3.ovf THEN t3
              ELSE IF t3.pages[pn + 1].entries = <<>>
              THEN Split(t3, newPN, d1, starting_num + half)
              ELSE t3
    IN [t4 EXCEPT !.pins[newPN + 1] = @ - 1]

SetTable(t) ==
    /\ hDepth' = t.depth
    /\ hBuckets' = t.buckets
    /\ hPages' = t.pages
    /\ hPins' = t.pins

(* The table after bucket.Insert and the Split it asks for, the bucket    *)
(* of the key still pinned.                                                *)
InsertAndSplit(k, v) ==
    LET hash == Hasher(k, hDepth)
        pn == hBuckets[hash + 1]
        entries == hPages[pn + 1].entries
        pinned == [Table EXCEPT !.pins[pn + 1] = @ + 1]
        added == [pinned EXCEPT !.pages[pn + 1].entries = BucketInsert(@, k, v)]
    IN IF Len(entries) + 1 >= BUCKETSIZE
       THEN Split(added, pn, hPages[pn + 1].depth, hash)
       ELSE added

HashInsert(k, v) ==
    LET hash == Hasher(k, hDepth)
        pn == hBuckets[hash + 1]
        entries == hPages[pn + 1].entries
        after == InsertAndSplit(k, v)
    IN
    IF ~CanPin(hPins, pn) THEN
        /\ hRet' = [op |-> "Insert", res |-> "NO_FRAMES", out |-> <<>>]
        /\ UNCHANGED <<hDepth, hBuckets, hPages, hPins, hLive>>
    ELSE IF BucketFind(entries, k) # 0 THEN
        /\ hRet' = [op |-> "Insert", res |-> "DUPLICATE", out |-> <<>>]
        /\ UNCHANGED <<hDepth, hBuckets, hPages, hPins, hLive>>
    ELSE
        /\ ~after.ovf
        /\ SetTable([after EXCEPT !.pins[pn + 1] = @ - 1])
        /\ hLive' = [hLive EXCEPT ![<<k, v>>] = @ + 1]
        /\ hRet' = [op |-> "Insert", res |-> "OK", out |-> <<>>]

HashFind(k) ==
    LET pn == hBuckets[Hasher(k, hDepth) + 1]
        entries == hPages[pn + 1].entries
        idx == BucketFind(entries, k)
    IN
    /\ hRet' = IF ~CanPin(hPins, pn)
               THEN [op |-> "Find", res |-> "NO_FRAMES", out |-> <<>>, key |-> k]
               ELSE [op |-> "Find", res |-> "OK", key |-> k,
                     out |-> IF idx = 0 THEN <<>> ELSE <<entries[idx]>>]
    /\ UNCHANGED <<hDepth, hBuckets, hPages, hPins, hLive>>

HashUpdate(k, v) ==
    LET pn == hBuckets[Hasher(k, hDepth) + 1]
        entries == hPages[pn + 1].entries
        idx == BucketFind(entries, k)
    IN
    IF ~CanPin(hPins, pn) THEN
        /\ hRet' = [op |-> "Update", res |-> "NO_FRAMES", out |-> <<>>]
        /\ UNCHANGED <<hDepth, hBuckets, hPages, hPins, hLive>>
    ELSE IF idx = 0 THEN
        /\ hRet' = [op |-> "Update", res |-> "NOT_FOUND", out |-> <<>>]
        /\ UNCHANGED <<hDepth, hBuckets, hPages, hPins, hLive>>
    ELSE
        /\ hPages' = [hPages EXCEPT ![pn + 1].entries[idx] = <<k, v>>]
        /\ hLive' = [e \in Keys \X Values |->
                       hLive[e] - (IF e = entries[idx] THEN 1 ELSE 0)
                                + (IF e = <<k, v>> THEN 1 ELSE 0)]
        /\ hRet' = [op |-> "Update", res |-> "OK", out |-> <<>>]
        /\ UNCHANGED <<hDepth, hBuckets, hPins>>

HashDelete(k) ==
    LET pn == hBuckets[Hasher(k, hDepth) + 1]
        entries == hPages[pn + 1].entries
        idx == BucketFind(entries, k)
    IN
    IF ~CanPin(hPins, pn) THEN
        /\ hRet' = [op |-> "Delete", res |-> "NO_FRAMES", out |-> <<>>]
        /\ UNCHANGED <<hDepth, hBuckets, hPages, hPins, hLive>>
    ELSE IF idx = 0 THEN
        /\ hRet' = [op |-> "Delete", res |-> "NOT_FOUND", out |-> <<>>]
        /\ UNCHANGED <<hDepth, hBuckets, hPages, hPins, hLive>>
    ELSE
        /\ hPages' = [hPages EXCEPT ![pn + 1].entries = BucketDelete(entries, k)]
        /\ hLive' = [hLive EXCEPT ![entries[idx]] = @ - 1]
        /\ hRet' = [op |-> "Delete", res |-> "OK", out |-> <<>>]
        /\ UNCHANGED <<hDepth, hBuckets, hPins>>

(* The loop of HashTable.Select from slot i on: GetBucket pins the page of *)
(* the slot and nothing unpins it.                                         *)
RECURSIVE SelectFrom(_, _, _)
SelectFrom(i, pins, out) ==
    IF i > Len(hBuckets) THEN [res |-> "OK", pins |-> pins, out |-> out]
    ELSE LET pn == hBuckets[i] IN
         IF ~CanPin(pins, pn) THEN [res |-> "NO_FRAMES", pins |-> pins, out |-> <<>>]
         ELSE SelectFrom(i + 1, [pins EXCEPT ![pn + 1] = @ + 1],
                         out \o hPages[pn + 1].entries)

HashSelect ==
    LET r == SelectFrom(1, hPins, <<>>) IN
    /\ \A i \in 1..Len(r.pins) : r.pins[i] <= MaxBucketPins
    /\ hPins' = r.pins
    /\ hRet' = [op |-> "Select", res |-> r.res, out |-> r.out]
    /\ UNCHANGED <<hDepth, hBuckets, hPages, hLive>>

(***************************************************************************)
(*                              B+-TREE                                    *)
(***************************************************************************)
ENTRIES_PER_LEAF_NODE == 3    \* a leaf that reaches this many entries splits
KEYS_PER_INTERNAL_NODE == 3   \* an internal node that reaches this many keys splits
MaxBKey == 5                  \* tree keys are 1..MaxBKey

BKeys == 1..MaxBKey
ROOT_PN == 0
NoSibling == -1
NoValue == -1

VARIABLES
    bNodes,   \* node page pn at index pn + 1:
              \*   [type, entries (leaf), right (leaf), keys, children (internal)]
    bLive,    \* key -> value of the last successful Insert/Update, NoValue
              \* after a Delete or before any Insert
    bRet      \* what the last index call returned

btVars == <<bNodes, bLive, bRet>>

Leaf(entries, right) ==
    [type |-> "leaf", entries |-> entries, right |-> right,
     keys |-> <<>>, children |-> <<>>]

Internal(keys, children) ==
    [type |-> "internal", entries |-> <<>>, right |-> NoSibling,
     keys |-> keys, children |-> children]

InitBTree ==
    /\ bNodes = <<Leaf(<<>>, NoSibling)>>
    /\ bLive = [k \in BKeys |-> NoValue]
    /\ bRet = [op |-> "none", key |-> 0, res |-> "none", out |-> <<>>]

NoSplit == [isSplit |-> FALSE, key |-> 0, leftPN |-> 0, rightPN |-> 0]

(* LeafNode.search: number of entries with a smaller key.                  *)
LeafSearch(entries, key) ==
    Cardinality({i \in 1..Len(entries) : entries[i][1] < key})

(* InternalNode.search: number of keys that are not greater.               *)
InternalSearch(keys, key) ==
    Cardinality({i \in 1..Len(keys) : keys[i] <= key})

InsertAt(l, idx, x) ==
    [i \in 1..(Len(l) + 1) |->
        IF i <= idx THEN l[i] ELSE IF i = idx + 1 THEN x ELSE l[i - 1]]

(* Mutant: the new leaf is not linked in: the old leaf keeps its sibling.   *)
LeafSplit_OldKeepsSibling(ns, pn) ==
    LET node == ns[pn + 1]
        newPN == Len(ns)
        medianKeyIndex == Len(node.entries) \div 2
        leaf == Leaf(SubSeq(node.entries, medianKeyIndex + 1, Len(node.entries)),
                     node.right)
    IN [ns |-> Append([ns EXCEPT ![pn + 1] =
                          Leaf(SubSeq(node.entries, 1, medianKeyIndex), node.right)],
                      leaf),
        split |-> [isSplit |-> TRUE, key |-> leaf.entries[1][1],
                   leftPN |-> pn, rightPN |-> newPN],
        err |-> "none"]

(* Mutant: the last key of the left half is promoted.                      *)
LeafSplit_PromoteLeftMax(ns, pn) ==
    LET node == ns[pn + 1]
        newPN == Len(ns)
        medianKeyIndex == Len(node.entries) \div 2
        leaf == Leaf(SubSeq(node.entries, medianKeyIndex + 1, Len(node.entries)),
                     node.right)
    IN [ns |-> Append([ns EXCEPT ![pn + 1] =
                          Leaf(SubSeq(node.entries, 1, medianKeyIndex), newPN)],
                      leaf),
        split |-> [isSplit |-> TRUE, key |-> node.entries[medianKeyIndex][1],
                   leftPN |-> pn, rightPN |-> newPN],
        err |-> "none"]

LeafSplit(ns, pn) ==
    LET node == ns[pn + 1]
        newPN == Len(ns)
        medianKeyIndex == Len(node.entries) \div 2
        leaf == Leaf(SubSeq(node.entries, medianKeyIndex + 1, Len(node.entries)),
                     node.right)
    IN [ns |-> Append([ns EXCEPT ![pn + 1] =
                          Leaf(SubSeq(node.entries, 1, medianKeyIndex), newPN)],
                      leaf),
        split |-> [isSplit |-> TRUE, key |-> leaf.entries[1][1],
                   leftPN |-> pn, rightPN |-> newPN],
        err |-> "none"]

LeafInsert(ns, pn, key, value, update) ==
    LET node == ns[pn + 1]
        index == LeafSearch(node.entries, key)
        present == index < Len(node.entries) /\ node.entries[index + 1][1] = key
        put == [ns EXCEPT ![pn + 1].entries = InsertAt(@, index, <<key, value>>)]
    IN
    IF update THEN
        IF present
        THEN [ns |-> [ns EXCEPT ![pn + 1].entries[index + 1] = <<key, value>>],
              split |-> NoSplit, err |-> "none"]
        ELSE [ns |-> ns, split |-> NoSplit, err |-> "NOT_FOUND"]
    ELSE IF present THEN [ns |-> ns, split |-> NoSplit, err |-> "DUPLICATE"]
    ELSE IF Len(node.entries) + 1 >= ENTRIES_PER_LEAF_NODE THEN LeafSplit(put, pn)
    ELSE [ns |-> put, split |-> NoSplit, err |-> "none"]

InternalSplit(ns, pn) ==
    LET node == ns[pn + 1]
        n == Len(node.keys)
        medianKeyIndex == n \div 2
        intern == Internal(SubSeq(node.keys, medianKeyIndex + 2, n),
                           SubSeq(node.children, medianKeyIndex + 2, n + 1))
    IN [ns |-> Append([ns EXCEPT ![pn + 1] =
                          Internal(SubSeq(node.keys, 1, medianKeyIndex),
                                   SubSeq(node.children, 1, medianKeyIndex + 1))],
                      intern),
        split |-> [isSplit |-> TRUE, key |-> node.keys[medianKeyIndex + 1],
                   leftPN |-> pn, rightPN |-> Len(ns)],
        err |-> "none"]

InsertSplit(ns, pn, split) ==
    LET node == ns[pn + 1]
        index == InternalSearch(node.keys, split.key)
        put == [ns EXCEPT ![pn + 1] =
                   Internal(InsertAt(node.keys, index, split.key),
                            InsertAt(node.children, index + 1, split.rightPN))]
    IN IF Len(node.keys) + 1 >= KEYS_PER_INTERNAL_NODE
       THEN InternalSplit(put, pn)
       ELSE [ns |-> put, split |-> NoSplit, err |-> "none"]

RECURSIVE NodeInsert(_, _, _, _, _)
NodeInsert(ns, pn, key, value, update) ==
    LET node == ns[pn + 1] IN
    IF node.type = "leaf" THEN LeafInsert(ns, pn, key, value, update)
    ELSE LET child == node.children[InternalSearch(node.keys, key) + 1]
             result == NodeInsert(ns, child, key, value, update)
         IN IF result.split.isSplit
            THEN InsertSplit(result.ns, pn, result.split)
            ELSE [ns |-> result.ns, split |-> NoSplit, err |-> result.err]

(* The leaf that key belongs to: Node.keyToNodeEntry, and the walk of get  *)
(* and delete.                                                             *)
RECURSIVE KeyToLeaf(_, _, _)
KeyToLeaf(ns, pn, key) ==
    LET node == ns[pn + 1] IN
    IF node.type = "leaf" THEN pn
    ELSE KeyToLeaf(ns, node.children[InternalSearch(node.keys, key) + 1], key)

(* BTreeIndex.Insert: a split of the root moves the old root's contents to *)
(* a new page and makes page ROOT_PN an internal node above both halves.   *)
RootInsert(ns, key, value, update) ==
    LET result == NodeInsert(ns, ROOT_PN, key, value, update)
        movedPN == Len(result.ns)
    IN IF result.split.isSplit
       THEN Append([result.ns EXCEPT ![ROOT_PN + 1] =
                       Internal(<<result.split.key>>,
                                <<movedPN, result.split.rightPN>>)],
                   result.ns[ROOT_PN + 1])
       ELSE result.ns

BTreeInsert(key, value) ==
    LET result == NodeInsert(bNodes, ROOT_PN, key, value, FALSE) IN
    /\ bNodes' = RootInsert(bNodes, key, value, FALSE)
    /\ bLive' = IF result.err = "none" THEN [bLive EXCEPT ![key] = value] ELSE bLive
    /\ bRet' = [op |-> "Insert", key |-> key, out |-> <<>>,
                res |-> IF result.err = "none" THEN "OK" ELSE result.err]

BTreeUpdate(key, value) ==
    LET result == NodeInsert(bNodes, ROOT_PN, key, value, TRUE) IN
    /\ bNodes' = RootInsert(bNodes, key, value, TRUE)
    /\ bLive' = IF result.err = "none" THEN [bLive EXCEPT ![key] = value] ELSE bLive
    /\ bRet' = [op |-> "Update", key |-> key, out |-> <<>>,
                res |-> IF result.err = "none" THEN "OK" ELSE result.err]

(* The entries without the one at position pos (counted from 0).           *)
ShiftLeft(entries, pos) ==
    SubSeq(entries, 1, pos) \o SubSeq(entries, pos + 2, Len(entries))

(* LeafNode.delete of node.go: the entries of the leaf after the call.     *)
LeafDelete(entries, key) ==
    LET deletePos == LeafSearch(entries, key)
    IN IF deletePos >= Len(entries) \/ entries[deletePos + 1][1] # key
       THEN entries
       ELSE ShiftLeft(entries, deletePos)

(* LeafNode.delete of the second copy of the package: it returns early     *)
(* only when the position is past the entries AND the key read there       *)
(* differs.  The cell past the entries holds whatever an earlier entry     *)
(* left there, so both outcomes of that comparison are possible; the       *)
(* result is the set of [entries, numKeys] the call can leave.             *)
LeafDeleteCopy(entries, key) ==
    LET needNodeIndex == LeafSearch(entries, key)
    IN IF needNodeIndex >= Len(entries)
       THEN {[entries |-> entries, numKeys |-> Len(entries)],
             [entries |-> SubSeq(entries, 1, Len(entries) - 1),
              numKeys |-> Len(entries) - 1]}
       ELSE {[entries |-> ShiftLeft(entries, needNodeIndex),
              numKeys |-> Len(entries) - 1]}

BTreeDelete(key) ==
    LET pn == KeyToLeaf(bNodes, ROOT_PN, key)
        entries == bNodes[pn + 1].entries
    IN
    /\ bNodes' = [bNodes EXCEPT ![pn + 1].entries = LeafDelete(entries, key)]
    /\ bLive' = [bLive EXCEPT ![key] = NoValue]
    /\ bRet' = [op |-> "Delete", key |-> key, out |-> <<>>, res |-> "OK"]

BTreeFind(key) ==
    LET pn == KeyToLeaf(bNodes, ROOT_PN, key)
        entries == bNodes[pn + 1].entries
        index == LeafSearch(entries, key)
    IN
    /\ bRet' = IF index >= Len(entries) \/ entries[index + 1][1] # key
               THEN [op |-> "Find", key |-> key, out |-> <<>>, res |-> "NOT_FOUND"]
               ELSE [op |-> "Find", key |-> key, out |-> <<entries[index + 1]>>,
                     res |-> "OK"]
    /\ UNCHANGED <<bNodes, bLive>>

(* TableStart: the cursor on cell 0 of the leftmost leaf.                  *)
RECURSIVE LeftmostLeaf(_, _)
LeftmostLeaf(ns, pn) ==
    IF ns[pn + 1].type = "leaf" THEN pn ELSE LeftmostLeaf(ns, ns[pn + 1].children[1])

TableStart(ns) ==
    LET pn == LeftmostLeaf(ns, ROOT_PN)
    IN [curNode |-> pn, cellnum |-> 0, isEnd |-> ns[pn + 1].entries = <<>>]

(* StepForward: the cursor after the step and the value returned.          *)
RECURSIVE StepForward(_, _)
StepForward(ns, cursor) ==
    LET node == ns[cursor.curNode + 1] IN
    IF cursor.cellnum + 1 >= Len(node.entries) THEN
        IF node.right < 0 THEN [cursor |-> cursor, atEnd |-> TRUE]
        ELSE LET next == [cursor EXCEPT !.curNode = node.right, !.cellnum = 0]
             IN IF ns[node.right + 1].entries = <<>>
                THEN StepForward(ns, next)
                ELSE [cursor |-> next, atEnd |-> FALSE]
    ELSE [cursor |-> [cursor EXCEPT !.cellnum = @ + 1], atEnd |-> FALSE]

(* The full scan: GetEntry and StepForward from TableStart until the       *)
(* cursor is at the end.                                                   *)
RECURSIVE ScanFrom(_, _, _)
ScanFrom(ns, cursor, out) ==
    IF cursor.isEnd THEN out
    ELSE LET got == Append(out, ns[cursor.curNode + 1].entries[cursor.cellnum + 1])
             step == StepForward(ns, cursor)
         IN IF step.atEnd THEN got ELSE ScanFrom(ns, step.cursor, got)

BTreeSelect ==
    /\ bRet' = [op |-> "Select", key |-> 0, res |-> "OK",
                out |-> ScanFrom(bNodes, TableStart(bNodes), <<>>)]
    /\ UNCHANGED <<bNodes, bLive>>

(* TableFind: the cursor on the position of key in the leaf it belongs to. *)
TableFind(ns, key) ==
    LET pn == KeyToLeaf(ns, ROOT_PN, key)
        cellnum == LeafSearch(ns[pn + 1].entries, key)
    IN [curNode |-> pn, cellnum |-> cellnum,
        isEnd |-> cellnum = Len(ns[pn + 1].entries)]

(* The loop of TableFindRange from its second GetEntry on.  A StepForward  *)
(* that returns true leaves the cursor where the next rounds find it       *)
(* again: short of the end position the loop never ends.  Two cursors are  *)
(* on the same node when they are on the same page.                        *)
RECURSIVE RangeLoop(_, _, _, _)
RangeLoop(ns, cursor, end, out) ==
    LET got == Append(out, ns[cursor.curNode + 1].entries[cursor.cellnum + 1])
        step == StepForward(ns, cursor)
    IN IF step.cursor.curNode = end.curNode /\ step.cursor.cellnum = end.cellnum
       THEN [res |-> "OK", out |-> got]
       ELSE IF step.atEnd THEN [res |-> "DIVERGES", out |-> <<>>]
       ELSE RangeLoop(ns, step.cursor, end, got)

TableFindRange(ns, startKey, endKey) ==
    LET cursor == TableFind(ns, startKey)
        end == TableFind(ns, endKey)
    IN IF cursor.isEnd THEN [res |-> "ERROR", out |-> <<>>]
       ELSE RangeLoop(ns, cursor, end, <<>>)

BTreeFindRange(startKey, endKey) ==
    LET r == TableFindRange(bNodes, startKey, endKey) IN
    /\ bRet' = [op |-> "FindRange", key |-> startKey, hi |-> endKey,
                res |-> r.res, out |-> r.out]
    /\ UNCHANGED <<bNodes, bLive>>

(***************************************************************************)
(*                          RECOVERY MANAGER                               *)
(***************************************************************************)
NumSessions == 2   \* client ids are 1..NumSessions
MaxRKey == 2       \* keys of the table are 1..MaxRKey
MaxRVal == 2       \* values are 1..MaxRVal
MaxLog == 6        \* no session appends to a log of this length

Sessions == 1..NumSessions
RKeys == 1..MaxRKey
RVals == 1..MaxRVal
Absent == 0

INSERT_ACTION == "insert"
UPDATE_ACTION == "update"
DELETE_ACTION == "delete"
Actions == {INSERT_ACTION, UPDATE_ACTION, DELETE_ACTION}

VARIABLES
    rLog,       \* the log file data/bumble.log, oldest record first
    rTable,     \* the table as the running process sees it: key -> value, Absent
    rDisk,      \* the table as its file holds it
    rShadow,    \* the shadow directory: [exists, disk, log]
    rTxStack,   \* rm.txStack: client -> its records, <<>> when it has no entry
    rTm,        \* the transactions registered in the transaction manager
    rLocks,     \* key -> the client that holds its write lock, 0 when free
    rPhase,     \* "run", "down" (process dead), "open" (restarted, not recovered)
    rHow,       \* how the last restart opened the database: "open" or "prime"
    rRet,       \* how the last Recover ended: "none", "ok", "error", "panic"
    rCrashLog,  \* the log as it was when the process last died
    rAbort      \* the last Rollback: [c, res, undone]

rcVars == <<rLog, rTable, rDisk, rShadow, rTxStack, rTm, rLocks, rPhase, rHow,
            rRet, rCrashLog, rAbort>>

Rec(type, id, action, key, oldval, newval, ids) ==
    [type |-> type, id |-> id, action |-> action, key |-> key,
     oldval |-> oldval, newval |-> newval, ids |-> ids]

tableLog == Rec("table", 0, "none", 0, 0, 0, {})
startLog(id) == Rec("start", id, "none", 0, 0, 0, {})
commitLog(id) == Rec("commit", id, "none", 0, 0, 0, {})
checkpointLog(ids) == Rec("checkpoint", 0, "none", 0, 0, 0, ids)
editLog(id, action, key, oldval, newval) == Rec("edit", id, action, key, oldval, newval, {})

NoAbort == [c |-> 0, res |-> "none", undone |-> 0]

(* The state after `create table`: the table record is in the log, the     *)
(* table file exists and is empty.                                         *)
InitRecovery ==
    /\ rLog = <<tableLog>>
    /\ rTable = [k \in RKeys |-> Absent]
    /\ rDisk = [k \in RKeys |-> Absent]
    /\ rShadow = [exists |-> FALSE, disk |-> [k \in RKeys |-> Absent], log |-> <<>>]
    /\ rTxStack = [c \in Sessions |-> <<>>]
    /\ rTm = {}
    /\ rLocks = [k \in RKeys |-> 0]
    /\ rPhase = "run"
    /\ rHow = "open"
    /\ rRet = "none"
    /\ rCrashLog = <<>>
    /\ rAbort = NoAbort

(* `transaction begin` of a session: tm.Begin and rm.Start.                *)
RBegin(c) ==
    /\ rPhase = "run"
    /\ c \notin rTm
    /\ Len(rLog) < MaxLog
    /\ rTm' = rTm \cup {c}
    /\ rLog' = Append(rLog, startLog(c))
    /\ rTxStack' = [rTxStack EXCEPT ![c] = <<startLog(c)>>]
    /\ UNCHANGED <<rTable, rDisk, rShadow, rLocks, rPhase, rHow, rRet, rCrashLog>>
    /\ rAbort' = NoAbort

(* insert, update or delete of a session inside its transaction: write     *)
(* lock on the key, rm.Edit, then the change of the table.                 *)
REdit(c, action, k, v) ==
    /\ rPhase = "run"
    /\ c \in rTm
    /\ rLocks[k] \in {0, c}
    /\ Len(rLog) < MaxLog
    /\ IF action = INSERT_ACTION THEN rTable[k] = Absent ELSE rTable[k] # Absent
    /\ action = DELETE_ACTION => v = Absent
    /\ action # DELETE_ACTION => v # Absent
    /\ rLocks' = [rLocks EXCEPT ![k] = c]
    /\ rLog' = Append(rLog, editLog(c, action, k, rTable[k], v))
    /\ rTxStack' = [rTxStack EXCEPT ![c] = Append(@, editLog(c, action, k, rTable[k], v))]
    /\ rTable' = [rTable EXCEPT ![k] = v]
    /\ UNCHANGED <<rDisk, rShadow, rTm, rPhase, rHow, rRet, rCrashLog>>
    /\ rAbort' = NoAbort

(* `transaction commit`: rm.Commit and tm.Commit.                          *)
RCommit(c) ==
    /\ rPhase = "run"
    /\ c \in rTm
    /\ Len(rLog) < MaxLog
    /\ rLog' = Append(rLog, commitLog(c))
    /\ rTxStack' = [rTxStack EXCEPT ![c] = <<>>]
    /\ rTm' = rTm \ {c}
    /\ rLocks' = [k \in RKeys |-> IF rLocks[k] = c THEN 0 ELSE rLocks[k]]
    /\ UNCHANGED <<rTable, rDisk, rShadow, rPhase, rHow, rRet, rCrashLog>>
    /\ rAbort' = NoAbort

(* What the handler that Undo calls does for one edit record of the stack: *)
(* the inverse edit is logged through rm.Edit and applied; it fails when   *)
(* the key is not in the state the inverse needs.                          *)
UndoOne(st, log) ==
    LET cur == st.table[log.key]
        inv == IF log.action = INSERT_ACTION
               THEN editLog(log.id, DELETE_ACTION, log.key, cur, Absent)
               ELSE IF log.action = UPDATE_ACTION
               THEN editLog(log.id, UPDATE_ACTION, log.key, cur, log.oldval)
               ELSE editLog(log.id, INSERT_ACTION, log.key, cur, log.oldval)
        fails == IF log.action = DELETE_ACTION THEN cur # Absent ELSE cur = Absent
    IN IF st.err \/ log.type # "edit" THEN st
       ELSE IF fails THEN [st EXCEPT !.err = TRUE]
       ELSE [st EXCEPT !.table[log.key] = inv.newval,
                       !.log = Append(@, inv),
                       !.undone = @ + 1]

(* The loop of Rollback over the records order[1], order[2], ... of logs.  *)
RECURSIVE UndoAll(_, _, _)
UndoAll(logs, order, st) ==
    IF order = <<>> THEN st
    ELSE UndoAll(logs, Tail(order), UndoOne(st, logs[Head(order)]))

(* What Rollback makes of the state when it walks the stack in `order`.    *)
RollbackWith(c, order) ==
    LET logs == rTxStack[c]
        st == UndoAll(logs, order,
                      [table |-> rTable, log |-> rLog, err |-> FALSE, undone |-> 0])
    IN
    /\ rPhase = "run"
    /\ Len(rLog) + Len(logs) <= MaxLog + 1
    /\ IF logs = <<>> THEN
           /\ rTm' = rTm \cup {c}
           /\ rAbort' = [c |-> c, res |-> "NO_TX", undone |-> 0]
           /\ UNCHANGED <<rLog, rTable, rTxStack, rLocks>>
       ELSE IF logs[1].type # "start" THEN
           /\ rTm' = rTm \cup {c}
           /\ rAbort' = [c |-> c, res |-> "error", undone |-> 0]
           /\ UNCHANGED <<rLog, rTable, rTxStack, rLocks>>
       ELSE IF st.err THEN
           /\ rTm' = rTm \cup {c}
           /\ rTable' = st.table
           /\ rLog' = st.log
           /\ rTxStack' = [rTxStack EXCEPT ![c] =
                              @ \o SubSeq(st.log, Len(rLog) + 1, Len(st.log))]
           /\ rAbort' = [c |-> c, res |-> "error", undone |-> st.undone]
           /\ UNCHANGED rLocks
       ELSE
           /\ rTable' = st.table
           /\ rLog' = Append(st.log, commitLog(c))
           /\ rTxStack' = [rTxStack EXCEPT ![c] = <<>>]
           /\ rTm' = rTm \ {c}
           /\ rLocks' = [k \in RKeys |-> IF rLocks[k] = c THEN 0 ELSE rLocks[k]]
           /\ rAbort' = [c |-> c, res |-> "OK", undone |-> st.undone]
    /\ UNCHANGED <<rDisk, rShadow, rPhase, rHow, rRet, rCrashLog>>

(* Mutant: the stack is undone oldest record first.                        *)
Rollback_OldestFirst(c) ==
    RollbackWith(c, [i \in 1..Len(rTxStack[c]) |-> i])

(* `abort`: Rollback walks txStack[c] from its last record to its first.   *)
Rollback(c) ==
    RollbackWith(c, [i \in 1..Len(rTxStack[c]) |-> Len(rTxStack[c]) + 1 - i])

(* The connection of a session closes: handleConn's deferred tm.Commit.    *)
CloseConn(c) ==
    /\ rPhase = "run"
    /\ c \in rTm
    /\ rTm' = rTm \ {c}
    /\ rLocks' = [k \in RKeys |-> IF rLocks[k] = c THEN 0 ELSE rLocks[k]]
    /\ rAbort' = NoAbort
    /\ UNCHANGED <<rLog, rTable, rDisk, rShadow, rTxStack, rPhase, rHow, rRet,
                   rCrashLog>>

(* The connection of session c is open: a session whose connection closed  *)
(* inside a transaction has left its records in txStack.                   *)
Connected(c) == c \in rTm \/ rTxStack[c] = <<>>

(* Checkpoint: flush, checkpoint record with the keys of txStack, Delta.   *)
(* The log file lies in the database folder, so Delta copies it too.       *)
Checkpoint ==
    /\ rPhase = "run"
    /\ Len(rLog) < MaxLog
    /\ rDisk' = rTable
    /\ rLog' = Append(rLog, checkpointLog({c \in Sessions : rTxStack[c] # <<>>}))
    /\ rShadow' = [exists |-> TRUE, disk |-> rTable, log |-> rLog']
    /\ UNCHANGED <<rTable, rTxStack, rTm, rLocks, rPhase, rHow, rRet, rCrashLog, rAbort>>

(* The pager writes the table's dirty page to the file.                    *)
RFlush ==
    /\ rPhase = "run"
    /\ rDisk # rTable
    /\ rDisk' = rTable
    /\ UNCHANGED <<rLog, rTable, rShadow, rTxStack, rTm, rLocks, rPhase, rHow,
                   rRet, rCrashLog, rAbort>>

(* The process is killed: everything in memory is gone.                    *)
Crash ==
    /\ rPhase = "run"
    /\ rPhase' = "down"
    /\ rCrashLog' = rLog
    /\ rAbort' = NoAbort
    /\ rTable' = rDisk
    /\ rTxStack' = [c \in Sessions |-> <<>>]
    /\ rTm' = {}
    /\ rLocks' = [k \in RKeys |-> 0]
    /\ rRet' = "none"
    /\ UNCHANGED <<rLog, rDisk, rShadow, rHow>>

(* Restart as main does it: db.Open on the folder as it is.                *)
RestartOpen ==
    /\ rPhase = "down"
    /\ rPhase' = "open"
    /\ rHow' = "open"
    /\ rTable' = rDisk
    /\ rTxStack' = [c \in Sessions |-> <<>>]
    /\ rTm' = {}
    /\ rRet' = "none"
    /\ UNCHANGED <<rLog, rDisk, rShadow, rLocks, rCrashLog, rAbort>>

(* Restart through Prime: with a shadow directory the database folder is   *)
(* removed and replaced by the shadow, log file included.                  *)
Prime ==
    /\ rPhase = "down"
    /\ rPhase' = "open"
    /\ rHow' = "prime"
    /\ rDisk' = IF rShadow.exists THEN rShadow.disk ELSE rDisk
    /\ rLog' = IF rShadow.exists THEN rShadow.log ELSE rLog
    /\ rTable' = rDisk'
    /\ rTxStack' = [c \in Sessions |-> <<>>]
    /\ rTm' = {}
    /\ rRet' = "none"
    /\ UNCHANGED <<rShadow, rLocks, rCrashLog, rAbort>>

(* readLogs: the position (from 0) of the last checkpoint record, 0 when  *)
(* there is none.                                                          *)
CheckpointPos(logs) ==
    LET cps == {i \in 1..Len(logs) : logs[i].type = "checkpoint"}
    IN IF cps = {} THEN 0 ELSE MaxOf(cps) - 1

(* Step 1 of Recover: the active transactions, from the checkpoint's list  *)
(* and the start and commit records from checkpointPos on.                 *)
RECURSIVE ActiveFrom(_, _, _)
ActiveFrom(logs, i, active) ==
    IF i > Len(logs) THEN active
    ELSE ActiveFrom(logs, i + 1,
                    IF logs[i].type = "start" THEN active \cup {logs[i].id}
                    ELSE IF logs[i].type = "commit" THEN active \ {logs[i].id}
                    ELSE active)

(* Redo of one record through the handlers of the db layer: INSERT falls   *)
(* back to UPDATE and UPDATE to INSERT; DELETE of an absent key fails.     *)
Redo(table, log) ==
    IF log.type # "edit" THEN [table |-> table, err |-> TRUE]
    ELSE IF log.action = DELETE_ACTION
    THEN IF table[log.key] = Absent
         THEN [table |-> table, err |-> TRUE]
         ELSE [table |-> [table EXCEPT ![log.key] = Absent], err |-> FALSE]
    ELSE [table |-> [table EXCEPT ![log.key] = log.newval], err |-> FALSE]

(* Step 2 of Recover, from record i on: start and commit records are       *)
(* written again through rm.Start and rm.Commit, the others are redone.    *)
RECURSIVE RedoFrom(_, _, _)
RedoFrom(logs, i, st) ==
    IF i > Len(logs) \/ st.err THEN st
    ELSE LET log == logs[i] IN
         IF log.type = "start" THEN
             RedoFrom(logs, i + 1,
                      [st EXCEPT !.log = Append(@, startLog(log.id)),
                                 !.txStack[log.id] = <<startLog(log.id)>>])
         ELSE IF log.type = "commit" THEN
             RedoFrom(logs, i + 1,
                      [st EXCEPT !.log = Append(@, commitLog(log.id)),
                                 !.txStack[log.id] = <<>>,
                                 !.tm = @ \ {log.id}])
         ELSE LET r == Redo(st.table, log)
              IN RedoFrom(logs, i + 1, [st EXCEPT !.table = r.table, !.err = r.err])

(* Step 3 of Recover: the index (from 0) of the first record its loop      *)
(* reads, `for i := len(logs); ...; log := logs[i]`.                        *)
UndoFirstIndex(logs) == Len(logs)

(* What one run of Recover makes of the log, the table, txStack and the    *)
(* transaction manager, and how it ends.                                   *)
RecoverOutcome(logs, table, txStack, tm) ==
    LET checkpointPos == CheckpointPos(logs)
        activeTran == ActiveFrom(logs, checkpointPos + 1,
                                 IF logs[checkpointPos + 1].type = "checkpoint"
                                 THEN logs[checkpointPos + 1].ids ELSE {})
        st == RedoFrom(logs, checkpointPos + 2,
                       [table |-> table, log |-> logs, txStack |-> txStack,
                        tm |-> tm \cup activeTran, err |-> FALSE])
    IN [table |-> st.table, log |-> st.log, txStack |-> st.txStack, tm |-> st.tm,
        ret |-> IF st.err THEN "error"
                ELSE IF UndoFirstIndex(logs) \in 0..(Len(logs) - 1) THEN "ok"
                ELSE "panic"]

Recover ==
    LET st == RecoverOutcome(rLog, rTable, rTxStack, rTm)
    IN
    /\ rPhase = "open"
    /\ Len(st.log) <= 2 * MaxLog
    /\ rTable' = st.table
    /\ rLog' = st.log
    /\ rTxStack' = st.txStack
    /\ rTm' = st.tm
    /\ rRet' = st.ret
    /\ rPhase' = IF rRet' = "panic" THEN "down" ELSE "run"
    /\ UNCHANGED <<rDisk, rShadow, rLocks, rHow, rCrashLog, rAbort>>

(***************************************************************************)
(*        CHECKPOINT, step by step, beside the sessions of a server        *)
(***************************************************************************)
MaxCkLog == 5      \* no record is appended to a log of this length

VARIABLES
    kLog,       \* the log file, oldest record first
    kMem,       \* the table's pages in the buffer pool: key -> value, Absent
    kDisk,      \* the table's pages in the file
    kShadow,    \* the shadow directory: [exists, disk, log]
    kPc,        \* where Checkpoint stands: "idle", "flushed" (rm.mtx held,
                \* updates locked, pages flushed), "unlocked", "logged"
    kIds,       \* idsList of the running Checkpoint
    kStack,     \* the clients with an entry in rm.txStack
    kPend,      \* client -> the edit record it has logged and not yet applied
                \* to the page, NoPend when there is none
    kLocks      \* key -> the client that holds its write lock, 0 when free

ckVars == <<kLog, kMem, kDisk, kShadow, kPc, kIds, kStack, kPend, kLocks>>

NoPend == Rec("none", 0, "none", 0, 0, 0, {})

InitCheckpoint ==
    /\ kLog = <<tableLog>>
    /\ kMem = [k \in RKeys |-> Absent]
    /\ kDisk = [k \in RKeys |-> Absent]
    /\ kShadow = [exists |-> FALSE, disk |-> [k \in RKeys |-> Absent], log |-> <<>>]
    /\ kPc = "idle"
    /\ kIds = {}
    /\ kStack = {}
    /\ kPend = [c \in Sessions |-> NoPend]
    /\ kLocks = [k \in RKeys |-> 0]

(* rm.Start of a session, under rm.mtx.                                    *)
CkStart(c) ==
    /\ kPc = "idle"
    /\ c \notin kStack
    /\ Len(kLog) < MaxCkLog
    /\ kLog' = Append(kLog, startLog(c))
    /\ kStack' = kStack \cup {c}
    /\ UNCHANGED <<kMem, kDisk, kShadow, kPc, kIds, kPend, kLocks>>

(* The first half of an insert, update or delete of a session: write lock  *)
(* on the key, then rm.Edit under rm.mtx.  v = Absent is a delete.         *)
CkEdit(c, k, v) ==
    /\ kPc = "idle"
    /\ c \in kStack
    /\ kPend[c] = NoPend
    /\ kLocks[k] \in {0, c}
    /\ Len(kLog) < MaxCkLog
    /\ v # kMem[k]
    /\ LET action == IF v = Absent THEN DELETE_ACTION
                     ELSE IF kMem[k] = Absent THEN INSERT_ACTION ELSE UPDATE_ACTION
           el == editLog(c, action, k, kMem[k], v)
       IN /\ kLog' = Append(kLog, el)
          /\ kPend' = [kPend EXCEPT ![c] = el]
    /\ kLocks' = [kLocks EXCEPT ![k] = c]
    /\ UNCHANGED <<kMem, kDisk, kShadow, kPc, kIds, kStack>>

(* The second half: the page is modified.  It waits while the updates of   *)
(* the page are locked.                                                    *)
CkApply(c) ==
    /\ kPend[c] # NoPend
    /\ kPc # "flushed"
    /\ kMem' = [kMem EXCEPT ![kPend[c].key] = kPend[c].newval]
    /\ kPend' = [kPend EXCEPT ![c] = NoPend]
    /\ UNCHANGED <<kLog, kDisk, kShadow, kPc, kIds, kStack, kLocks>>

(* rm.Commit of a session, under rm.mtx, and the release of its locks.     *)
CkCommit(c) ==
    /\ kPc = "idle"
    /\ c \in kStack
    /\ kPend[c] = NoPend
    /\ Len(kLog) < MaxCkLog
    /\ kLog' = Append(kLog, commitLog(c))
    /\ kStack' = kStack \ {c}
    /\ kLocks' = [k \in RKeys |-> IF kLocks[k] = c THEN 0 ELSE kLocks[k]]
    /\ UNCHANGED <<kMem, kDisk, kShadow, kPc, kIds, kPend>>

(* The pager writes the dirty page to the file when it evicts it; it needs *)
(* the pager mutex, which LockAllUpdates holds.                            *)
CkPageOut ==
    /\ kPc # "flushed"
    /\ kDisk # kMem
    /\ kDisk' = kMem
    /\ UNCHANGED <<kLog, kMem, kShadow, kPc, kIds, kStack, kPend, kLocks>>

(* Checkpoint up to FlushAllPages: rm.mtx, idsList, LockAllUpdates, flush. *)
CkFlush ==
    /\ kPc = "idle"
    /\ Len(kLog) < MaxCkLog
    /\ kIds' = kStack
    /\ kDisk' = kMem
    /\ kPc' = "flushed"
    /\ UNCHANGED <<kLog, kMem, kShadow, kStack, kPend, kLocks>>

(* UnlockAllUpdates.                                                       *)
CkUnlock ==
    /\ kPc = "flushed"
    /\ kPc' = "unlocked"
    /\ UNCHANGED <<kLog, kMem, kDisk, kShadow, kIds, kStack, kPend, kLocks>>

(* The checkpoint record is written.                                       *)
CkAppend ==
    /\ kPc = "unlocked"
    /\ kLog' = Append(kLog, checkpointLog(kIds))
    /\ kPc' = "logged"
    /\ UNCHANGED <<kMem, kDisk, kShadow, kIds, kStack, kPend, kLocks>>

(* Delta copies the database folder, log file included; Checkpoint returns *)
(* and releases rm.mtx.                                                    *)
CkDelta ==
    /\ kPc = "logged"
    /\ kShadow' = [exists |-> TRUE, disk |-> kDisk, log |-> kLog]
    /\ kPc' = "idle"
    /\ UNCHANGED <<kLog, kMem, kDisk, kIds, kStack, kPend, kLocks>>

(***************************************************************************)
(*          REDO AND UNDO of one edit record, on either index              *)
(***************************************************************************)
TableTypes == {"btree", "hash"}

VARIABLES
    uType,      \* the type of the table's index
    uTable,     \* the table: key -> value, Absent
    uRet        \* the last call: [op, log, err]

rdVars == <<uType, uTable, uRet>>

(* The edit records a session can have logged.                             *)
EditLogs ==
    {editLog(1, INSERT_ACTION, k, Absent, v) : k \in RKeys, v \in RVals}
    \cup {editLog(1, UPDATE_ACTION, k, o, v) : k \in RKeys, o \in RVals, v \in RVals}
    \cup {editLog(1, DELETE_ACTION, k, o, Absent) : k \in RKeys, o \in RVals}

InitRepair ==
    /\ uType = "btree"
    /\ uTable = [k \in RKeys |-> Absent]
    /\ uRet = [op |-> "none", log |-> tableLog, err |-> FALSE]

(* `create <type> table`: an empty table of the given type.                *)
CreateTable(tblType) ==
    /\ uType' = tblType
    /\ uTable' = [k \in RKeys |-> Absent]
    /\ uRet' = [op |-> "CreateTable", log |-> tableLog, err |-> FALSE]

(* Redo on a table of the given type: Delete of a key that is absent is an *)
(* error of the hash bucket and a silent return of the B+-tree leaf.       *)
RedoOn(tblType, table, log) ==
    IF tblType = "btree" /\ log.type = "edit" /\ log.action = DELETE_ACTION
       /\ table[log.key] = Absent
    THEN [table |-> table, err |-> FALSE]
    ELSE Redo(table, log)

RedoRecord(log) ==
    LET r == RedoOn(uType, uTable, log) IN
    /\ uTable' = r.table
    /\ uRet' = [op |-> "Redo", log |-> log, err |-> r.err]
    /\ UNCHANGED uType

UndoRecord(log) ==
    LET r == UndoOne([table |-> uTable, log |-> <<>>, err |-> FALSE, undone |-> 0], log) IN
    /\ uTable' = r.table
    /\ uRet' = [op |-> "Undo", log |-> log, err |-> r.err]
    /\ UNCHANGED uType

(***************************************************************************)
(*            The subsystems, each run on its own                          *)
(***************************************************************************)
vars == <<tmVars, grVars, pgVars, htVars, btVars, rcVars, ckVars, rdVars>>

Init ==
    /\ InitTM /\ InitGraph /\ InitPager /\ InitHash /\ InitBTree /\ InitRecovery
    /\ InitCheckpoint /\ InitRepair

TMOnly == UNCHANGED <<grVars, pgVars, htVars, btVars, rcVars, ckVars, rdVars>>

NextTM ==
    \/ TMOnly /\ \E c \in Clients : Begin(c)
    \/ TMOnly /\ \E c \in Clients, r \in Resources, m \in LockTypes : LockCall(c, r, m)
    \/ TMOnly /\ \E c \in Clients : LockReturn(c)
    \/ TMOnly /\ \E c \in Clients, r \in Resources, m \in LockTypes : Unlock(c, r, m)
    \/ TMOnly /\ \E c \in Clients : Commit(c)

SpecTM == Init /\ [][NextTM]_vars

GraphOnly == UNCHANGED <<tmVars, pgVars, htVars, btVars, rcVars, ckVars, rdVars>>

NextGraph ==
    \/ GraphOnly /\ \E from, to \in Vertices : GraphAddEdge(from, to)
    \/ GraphOnly /\ \E from, to \in Vertices : GraphRemoveEdge(from, to)
    \/ GraphOnly /\ GraphDetectCycle

SpecGraph == Init /\ [][NextGraph]_vars

PagerOnly == UNCHANGED <<tmVars, grVars, htVars, btVars, rcVars, ckVars, rdVars>>

NextPager ==
    \/ PagerOnly /\ \E n \in 0..MaxFilePages : Open(n)
    \/ PagerOnly /\ \E pn \in -1..MaxPN : GetPage(pn)
    \/ PagerOnly /\ \E f \in Frames : Put(f)
    \/ PagerOnly /\ \E f \in Frames, v \in Values : UpdatePage(f, v)
    \/ PagerOnly /\ \E f \in Frames : FlushPage(f)
    \/ PagerOnly /\ FlushAllPages
    \/ PagerOnly /\ Close

SpecPager == Init /\ [][NextPager]_vars

HashOnly == UNCHANGED <<tmVars, grVars, pgVars, btVars, rcVars, ckVars, rdVars>>

NextHash ==
    \/ HashOnly /\ \E k \in Keys, v \in Values : HashInsert(k, v)
    \/ HashOnly /\ \E k \in Keys : HashFind(k)
    \/ HashOnly /\ \E k \in Keys, v \in Values : HashUpdate(k, v)
    \/ HashOnly /\ \E k \in Keys : HashDelete(k)
    \/ HashOnly /\ HashSelect

SpecHash == Init /\ [][NextHash]_vars

BTreeOnly == UNCHANGED <<tmVars, grVars, pgVars, htVars, rcVars, ckVars, rdVars>>

NextBTree ==
    \/ BTreeOnly /\ \E k \in BKeys, v \in Values : BTreeInsert(k, v)
    \/ BTreeOnly /\ \E k \in BKeys, v \in Values : BTreeUpdate(k, v)
    \/ BTreeOnly /\ \E k \in BKeys : BTreeDelete(k)
    \/ BTreeOnly /\ \E k \in BKeys : BTreeFind(k)
    \/ BTreeOnly /\ BTreeSelect
    \/ BTreeOnly /\ \E lo \in BKeys, hi \in 1..(MaxBKey + 1) :
                        lo <= hi /\ BTreeFindRange(lo, hi)

SpecBTree == Init /\ [][NextBTree]_vars

RecoveryOnly == UNCHANGED <<tmVars, grVars, pgVars, htVars, btVars, ckVars, rdVars>>

NextRecovery ==
    \/ RecoveryOnly /\ \E c \in Sessions : RBegin(c)
    \/ RecoveryOnly /\ \E c \in Sessions, a \in Actions, k \in RKeys,
                           v \in RVals \cup {Absent} : REdit(c, a, k, v)
    \/ RecoveryOnly /\ \E c \in Sessions : RCommit(c)
    \/ RecoveryOnly /\ Checkpoint
    \/ RecoveryOnly /\ RFlush
    \/ RecoveryOnly /\ Crash
    \/ RecoveryOnly /\ RestartOpen
    \/ RecoveryOnly /\ Prime
    \/ RecoveryOnly /\ Recover

SpecRecovery == Init /\ [][NextRecovery]_vars

(* The sessions of a running server: no crash, no checkpoint.  Every       *)
(* connection gets a client id of its own, so a session whose connection   *)
(* has closed issues no further command.                                   *)
NextSession ==
    \/ RecoveryOnly /\ \E c \in Sessions : Connected(c) /\ RBegin(c)
    \/ RecoveryOnly /\ \E c \in Sessions, a \in Actions, k \in RKeys,
                           v \in RVals \cup {Absent} : REdit(c, a, k, v)
    \/ RecoveryOnly /\ \E c \in Sessions : RCommit(c)
    \/ RecoveryOnly /\ \E c \in Sessions : Connected(c) /\ Rollback(c)
    \/ RecoveryOnly /\ \E c \in Sessions : CloseConn(c)

SpecSession == Init /\ [][NextSession]_vars

CheckpointOnly == UNCHANGED <<tmVars, grVars, pgVars, htVars, btVars, rcVars, rdVars>>

(* Checkpoint beside the sessions of a running server.                     *)
NextCheckpoint ==
    \/ CheckpointOnly /\ \E c \in Sessions : CkStart(c)
    \/ CheckpointOnly /\ \E c \in Sessions, k \in RKeys, v \in RVals \cup {Absent} :
                            CkEdit(c, k, v)
    \/ CheckpointOnly /\ \E c \in Sessions : CkApply(c)
    \/ CheckpointOnly /\ \E c \in Sessions : CkCommit(c)
    \/ CheckpointOnly /\ CkPageOut
    \/ CheckpointOnly /\ CkFlush
    \/ CheckpointOnly /\ CkUnlock
    \/ CheckpointOnly /\ CkAppend
    \/ CheckpointOnly /\ CkDelta

SpecCheckpoint == Init /\ [][NextCheckpoint]_vars

RepairOnly == UNCHANGED <<tmVars, grVars, pgVars, htVars, btVars, rcVars, ckVars>>

NextRepair ==
    \/ RepairOnly /\ \E tblType \in TableTypes : CreateTable(tblType)
    \/ RepairOnly /\ \E log \in EditLogs : RedoRecord(log)
    \/ RepairOnly /\ \E log \in EditLogs : UndoRecord(log)

SpecRepair == Init /\ [][NextRepair]_vars

(***************************************************************************)
(*                              CLAIMS                                     *)
(***************************************************************************)

(* a holds r1 exclusively, b holds r2 exclusively, and a's request for an  *)
(* exclusive lock on r2 is waiting in the lock manager.                    *)
C3_Scenario(a, b, r1, r2) ==
    /\ a # b /\ r1 # r2
    /\ {a, b} \subseteq transactions
    /\ resources[a][r1] = W_LOCK
    /\ resources[b][r2] = W_LOCK
    /\ inLock[a] = [r |-> r2, mode |-> W_LOCK]
    /\ Queued(a)

(* C3: with A holding r1 and B holding r2 exclusively and A blocked on r2, *)
(* B's request for an exclusive lock on r1 returns DEADLOCK: in that state *)
(* B's Lock call can run and return DEADLOCK, so the two requests are not  *)
(* both blocked for ever.                                                  *)
C3_DeadlockReturned ==
    \A a, b \in Clients : \A r1, r2 \in Resources :
        C3_Scenario(a, b, r1, r2) =>
            ENABLED (LockCall(b, r1, W_LOCK) /\ tmRet'.res = "DEADLOCK")

(* C4: when T1's Lock request is blocked on a resource held by T2, T2's    *)
(* Commit completes (it can run in that state), which grants T1's request. *)
C4_CommitUnblocksWaiter ==
    \A t1, t2 \in Clients : \A r \in Resources :
        (t1 # t2 /\ Queued(t1) /\ inLock[t1].r = r /\ resources[t2][r] # NoLock)
            => ENABLED Commit(t2)

C12_CommitReleasesAll ==
    [][\A c \in Clients :
         Commit(c) =>
            IF c \in transactions
            THEN /\ tmRet'.res = "OK"
                 /\ c \notin transactions'
                 /\ \A r \in Resources :
                       /\ resources'[c][r] = NoLock
                       /\ lmHeld'[r].count =
                             lmHeld[r].count - (IF r \in HeldBy(c) THEN 1 ELSE 0)
                       /\ lmHeld'[r].count = 0 <=> lmHeld'[r].mode = NoLock
                 /\ \A i \in 1..Len(edges') : c \notin {edges'[i].from, edges'[i].to}
            ELSE /\ tmRet'.res = "NO_TX"
                 /\ UNCHANGED <<transactions, resources, edges, tmMtx, lmHeld,
                                lmQueue, inLock, tmPanic>> ]_vars

(* Commit has returned OK for a transaction that held a resource           *)
(* exclusively and shared another one with a transaction that is still     *)
(* registered and still holds it.                                          *)
C12_Witness ==
    /\ tmRet.op = "Commit" /\ tmRet.res = "OK"
    /\ tmRet.c \notin transactions
    /\ tmRet.released = Resources
    /\ \E d \in transactions, r \in Resources :
          /\ resources[d][r] = R_LOCK
          /\ lmHeld[r] = [mode |-> R_LOCK, count |-> 1]
    /\ \E r \in Resources : lmHeld[r].mode = NoLock

(* C14: when the process starts in recovery mode and the shadow directory *)
(* exists, the data directory has been replaced by the shadow's contents   *)
(* when the database is opened, before Recover replays the log; without a  *)
(* shadow the data directory is opened as it is.                           *)
C14_StartupRestoresShadow ==
    rPhase = "open" =>
        /\ rTable = rDisk
        /\ rShadow.exists => rDisk = rShadow.disk

(* C16: running Recover twice in succession on the same log and data      *)
(* directory is equivalent to running it once: the first run succeeds, and *)
(* a second run on what it left succeeds and leaves every table and the    *)
(* set of registered transactions as the first run left them.              *)
C16_RecoverTwiceIsOnce ==
    [][Recover =>
         LET second == RecoverOutcome(rLog', rTable', rTxStack', rTm')
         IN /\ rRet' = "ok"
            /\ second.ret = "ok"
            /\ second.table = rTable'
            /\ second.tm = rTm' ]_vars

(* C22: Unlock never changes state when it fails. With a mode different    *)
(* from the one the transaction holds on the resource it returns MISMATCH, *)
(* and for a client with no transaction it returns an error and the        *)
(* process lives on; in both cases the held resources and the lock manager *)
(* are unchanged. With the matching mode it releases the resource in the   *)
(* lock manager and removes it from the transaction's resources.           *)
C22_UnlockFailsCleanly ==
    [][\A c \in Clients, r \in Resources, m \in LockTypes :
          Unlock(c, r, m) =>
             IF c \notin transactions
             THEN /\ tmRet'.res \notin {"OK", "PANIC"}
                  /\ ~tmPanic'
                  /\ UNCHANGED <<resources, lmHeld, lmQueue>>
             ELSE IF resources[c][r] = NoLock THEN TRUE
             ELSE IF resources[c][r] # m
             THEN /\ tmRet'.res = "MISMATCH"
                  /\ UNCHANGED <<resources, lmHeld, lmQueue>>
             ELSE /\ tmRet'.res = "OK"
                  /\ resources' = [resources EXCEPT ![c][r] = NoLock]
                  /\ lmHeld' = LMUnlockOne(lmHeld, lmQueue, r).held
                  /\ lmQueue' = LMUnlockOne(lmHeld, lmQueue, r).queue]_vars

(* The Lock call of c is waiting inside the lock manager.                  *)
Pending(c) == inLock[c] # NoReq /\ Queued(c)

(* C27: while a Lock request is pending in the lock manager, the waits-for *)
(* graph holds an edge between the requester and every conflicting holder: *)
(* the edges are removed only after the lock has been granted.             *)
C27_PendingLockKeepsEdges ==
    \A c \in Clients :
        Pending(c) =>
            \A t \in discoverTransactions(inLock[c].r, inLock[c].mode) \ {c} :
                \E i \in 1..Len(edges) : {edges[i].from, edges[i].to} = {t, c}

(* C28: in every state in which a Lock call is waiting inside the lock     *)
(* manager for a conflicting holder, the caller does not hold the          *)
(* transaction manager's rwlock.                                           *)
C28_WaiterHoldsNoManagerLock ==
    \A c \in Clients : Pending(c) => tmMtx # c

(* The operation that gives back what an acquisition took.                 *)
MatchingRelease(acq) ==
    CASE acq = "Lock"  -> "Unlock"
      [] acq = "RLock" -> "RUnlock"
      [] OTHER         -> "none"

C32_RedoRepairs ==
    uRet.op = "Redo" =>
        /\ ~uRet.err
        /\ uTable[uRet.log.key] = uRet.log.newval
        /\ RedoOn(uType, uTable, uRet.log) = [table |-> uTable, err |-> FALSE]

(* C33: Undo of an edit record never fails because the key is present or   *)
(* absent: undoing an INSERT whose key is absent succeeds, undoing a       *)
(* DELETE whose key is present sets oldval, undoing an UPDATE whose key is *)
(* absent inserts oldval.                                                  *)
C33_UndoRepairs ==
    uRet.op = "Undo" =>
        /\ ~uRet.err
        /\ uTable[uRet.log.key] = uRet.log.oldval

(***************************************************************************)
(*                     Claims about Checkpoint                             *)
(***************************************************************************)
(* The transactions with a start record before position i of the log and   *)
(* no commit record between that record and position i.                    *)
ActiveAt(logs, i) ==
    {c \in Sessions : \E j \in 1..(i - 1) :
        /\ logs[j].type = "start" /\ logs[j].id = c
        /\ \A l \in (j + 1)..(i - 1) : ~(logs[l].type = "commit" /\ logs[l].id = c)}

(* C31: the transaction list of a checkpoint record is exactly the set of  *)
(* transactions active at that moment: those with a start record and no    *)
(* later commit record in the log. Clients that committed, were rolled     *)
(* back or undone by Recover, or never started a transaction, are not      *)
(* listed.                                                                 *)
C31_CheckpointListsActive ==
    \A i \in 1..Len(rLog) :
        rLog[i].type = "checkpoint" => rLog[i].ids = ActiveAt(rLog, i)

(* C29: the shadow copy is taken after the flush and before the updates    *)
(* are unlocked: from the flush to the end of the copy no page is modified *)
(* and none is written to disk.                                            *)
C29_NoPageChangeFromFlushToCopy ==
    [][(kPc \in {"flushed", "unlocked", "logged"}) =>
          kMem' = kMem /\ kDisk' = kDisk]_vars

(* C30: at the moment a checkpoint record is appended, every edit record   *)
(* that precedes it in the log has been applied to its page and was        *)
(* flushed, also an edit that a client logged just before Checkpoint took  *)
(* the mutex of the recovery manager.                                      *)
C30_CheckpointCoversLoggedEdits ==
    [][CkAppend => /\ \A c \in Sessions : kPend[c] = NoPend
                   /\ kDisk = kMem]_vars

(***************************************************************************)
(*                 Claims about the sessions of a server                   *)
(***************************************************************************)
EditsOf(logs, k) == {i \in 1..Len(logs) : logs[i].type = "edit" /\ logs[i].key = k}

(* The transaction of c is live: registered, with the stack Start began.   *)
LiveTx(c) == c \in rTm /\ rTxStack[c] # <<>> /\ rTxStack[c][1].type = "start"

(* C13: Rollback of a live transaction restores every key the transaction  *)
(* inserted, updated or deleted to the value (or absence) it had before    *)
(* the transaction's first edit and leaves the other keys alone;           *)
(* afterwards a commit record of the transaction ends the log, it holds no *)
(* lock and it is gone from the transaction manager and from txStack.      *)
C13_RollbackRestores ==
    [][\A c \in Sessions :
         (LiveTx(c) /\ Rollback(c)) =>
            /\ rAbort'.res = "OK"
            /\ \A k \in RKeys :
                  rTable'[k] = IF EditsOf(rTxStack[c], k) = {} THEN rTable[k]
                               ELSE rTxStack[c][MinOf(EditsOf(rTxStack[c], k))].oldval
            /\ rLog'[Len(rLog')] = commitLog(c)
            /\ \A k \in RKeys : rLocks'[k] # c
            /\ c \notin rTm'
            /\ rTxStack'[c] = <<>> ]_vars

(* Rollback has undone a transaction that inserted a key and then updated  *)
(* it: the key is absent again.                                            *)
C13_Witness ==
    /\ rAbort.res = "OK"
    /\ rAbort.undone >= 2
    /\ \E i, j \in 1..Len(rLog) :
          /\ i < j
          /\ rLog[i].type = "edit" /\ rLog[j].type = "edit"
          /\ rLog[i].id = rAbort.c /\ rLog[j].id = rAbort.c
          /\ rLog[i].action = INSERT_ACTION /\ rLog[j].action = UPDATE_ACTION
          /\ rLog[i].key = rLog[j].key
          /\ rTable[rLog[i].key] = Absent

(* C23: Rollback for a client with no open transaction fails with NO_TX    *)
(* and leaves the transaction manager's set of transactions, txStack and   *)
(* the log unchanged: a failed Rollback registers no transaction.          *)
C23_RollbackWithoutTxChangesNothing ==
    [][\A c \in Sessions :
          Rollback(c) /\ c \notin rTm /\ rTxStack[c] = <<>> =>
             /\ rAbort'.res = "NO_TX"
             /\ UNCHANGED <<rTm, rTxStack, rLog>>]_vars

(* C15: when the connection of a session with an open transaction closes, *)
(* the transaction is committed: its locks are released, it is removed     *)
(* from the transaction manager, and a commit record for it is appended to *)
(* the log, so that its edits survive a later Recover.                     *)
C15_CloseCommits ==
    [][\A c \in Sessions :
         CloseConn(c) =>
            /\ c \notin rTm'
            /\ \A k \in RKeys : rLocks'[k] # c
            /\ rLog' = Append(rLog, commitLog(c))
            /\ rTxStack'[c] = <<>> ]_vars

(* C17: a Lock request for a resource the transaction already holds      *)
(* changes no state (held resources, lock manager, waits-for graph): it    *)
(* fails with UPGRADE_FORBIDDEN when the held mode is SHARED and the       *)
(* requested mode is EXCLUSIVE, and returns OK in every other case.        *)
C17_LockHeldIsNoOp ==
    [][\A c \in Clients, r \in Resources, m \in LockTypes :
         (c \in transactions /\ resources[c][r] # NoLock /\ LockCall(c, r, m)) =>
            /\ UNCHANGED <<transactions, resources, edges, tmMtx, lmHeld, lmQueue,
                           inLock, tmPanic>>
            /\ tmRet' = [c |-> c, op |-> "Lock", res |->
                           IF resources[c][r] = R_LOCK /\ m = W_LOCK
                           THEN "UPGRADE_FORBIDDEN" ELSE "OK"] ]_vars

(* The last call was a request for an exclusive lock on a resource that    *)
(* the caller holds shared together with another transaction; it failed.   *)
C17_Witness ==
    /\ tmRet.op = "Lock" /\ tmRet.res = "UPGRADE_FORBIDDEN"
    /\ \E r \in Resources, d \in transactions :
          /\ d # tmRet.c
          /\ resources[tmRet.c][r] = R_LOCK
          /\ resources[d][r] = R_LOCK
          /\ lmHeld[r] = [mode |-> R_LOCK, count |-> 2]

(***************************************************************************)
(*                  Claims about the waits-for graph                       *)
(***************************************************************************)
Succ(g, v) == {g[i].to : i \in {j \in 1..Len(g) : g[j].from = v}}

RECURSIVE ReachFrom(_, _)
ReachFrom(g, S) ==
    LET N == S \cup UNION {Succ(g, v) : v \in S}
    IN IF N = S THEN S ELSE ReachFrom(g, N)

HasCycle(g) == \E v \in Vertices : v \in ReachFrom(g, Succ(g, v))

(* C11: for every waits-for multigraph, also one where a vertex has        *)
(* several outgoing edges, DetectCycle returns true iff the graph holds a  *)
(* directed cycle.                                                         *)
C11_DetectCycleIffCycle ==
    gRet.op = "DetectCycle" => (gRet.res <=> HasCycle(gEdges))

(***************************************************************************)
(*                        Claims about the pager                           *)
(***************************************************************************)
Occurrences(l, f) == Cardinality({i \in 1..Len(l) : l[i] = f})

Resident(f) == OnList(pinnedList, f) \/ OnList(unpinnedList, f)

(* C9: after any sequence of GetPage, Put, flush and eviction steps every  *)
(* frame is on exactly one of the free, unpinned and pinned lists; the     *)
(* page table maps a page number to a frame iff the frame is on the pinned *)
(* or the unpinned list and carries that page number; and a frame's pin    *)
(* count is > 0 iff it is on the pinned list.                              *)
C9_PagerInvariants ==
    /\ \A f \in Frames :
          Occurrences(freeList \o unpinnedList \o pinnedList, f) = 1
    /\ \A pn \in PageNums, f \in Frames :
          pageTable[pn] = f <=> (Resident(f) /\ page[f].pagenum = pn)
    /\ \A f \in Frames : page[f].pinCount > 0 <=> OnList(pinnedList, f)

AllPinned == Len(pinnedList) = NumFrames

(* C10: no pinned frame is ever reassigned to another page number: a frame *)
(* is reused only if it is on the free list or is the head of the unpinned *)
(* list of a disk-backed pager; when every frame is pinned, GetPage for a  *)
(* non-resident page fails with NO_FRAMES and leaves the lists, the page   *)
(* table, maxPageNum and the disk unchanged.                               *)
C10_NoPinnedFrameReassigned ==
    [][ /\ \A f \in Frames :
              page'[f].pagenum # page[f].pagenum =>
                 /\ ~OnList(pinnedList, f)
                 /\ \/ OnList(freeList, f)
                    \/ hasFile /\ unpinnedList # <<>> /\ f = Head(unpinnedList)
        /\ \A pn \in PageNums :
              (AllPinned /\ pageTable[pn] = NoFrame /\ GetPage(pn)) =>
                 /\ pgRet' = "NO_FRAMES"
                 /\ UNCHANGED <<freeList, unpinnedList, pinnedList, pageTable,
                                maxPageNum, disk>> ]_vars

(* Every frame is pinned, a page evicted earlier lies on the disk, and the *)
(* last GetPage failed with NO_FRAMES.                                     *)
C10_Witness ==
    /\ AllPinned
    /\ hasFile
    /\ pgRet = "NO_FRAMES"
    /\ maxPageNum > NumFrames
    /\ \E pn \in PageNums : pageTable[pn] = NoFrame /\ pn < Len(disk)

(* C24: after Close has returned every GetPage call fails, for a page that *)
(* was resident at close time as well as for one that was not.             *)
C24_NoGetPageAfterClose ==
    [][\A pn \in PageNums : fileClosed /\ GetPage(pn) => pgRet' # "OK"]_vars

(* C25: a successful GetPage(pn) of a page that is not resident, with      *)
(* pn >= maxPageNum, leaves maxPageNum = pn + 1 and the page dirty; with   *)
(* pn < maxPageNum it leaves maxPageNum unchanged and the page clean.      *)
C25_NewPageAdvancesMaxPageNum ==
    [][\A pn \in PageNums :
          GetPage(pn) /\ pageTable[pn] = NoFrame /\ pgRet' = "OK" =>
             IF pn >= maxPageNum
             THEN maxPageNum' = pn + 1 /\ page'[pageTable'[pn]].dirty
             ELSE maxPageNum' = maxPageNum /\ ~page'[pageTable'[pn]].dirty]_vars

(* C26: in every reachable state of the pager, also after a GetPage call   *)
(* that failed for want of a frame or on a read error, every frame on the  *)
(* free list has page number NOPAGE and is clean.                          *)
C26_FreeFramesAreBlank ==
    \A i \in 1..Len(freeList) :
        page[freeList[i]].pagenum = NOPAGE /\ ~page[freeList[i]].dirty

(* C34: the pager cannot be told from an unbounded page store. The frames  *)
(* that leave the pool are written to the file when dirty, so the file     *)
(* holds what was last written to a page that is not resident: a GetPage   *)
(* that brings page pn in shows the file's contents of pn, and all zeroes  *)
(* for a page beyond the end of the file; the dirty frame it reuses has    *)
(* been written to the file at its own page number.                        *)
C34_PagerIsAPageStore ==
    [][\A pn \in PageNums :
          (~fileClosed /\ pageTable[pn] = NoFrame /\ GetPage(pn) /\ pgRet' = "OK") =>
              LET f == pageTable'[pn] IN
              /\ page'[f].data = IF pn < Len(disk') THEN disk'[pn + 1] ELSE 0
              /\ (Resident(f) /\ page[f].dirty /\ hasFile) =>
                     disk'[page[f].pagenum + 1] = page[f].data]_vars

(***************************************************************************)
(*                      Claims about the hash table                        *)
(***************************************************************************)
(* C7: after every Insert, also one that splits buckets and doubles the    *)
(* directory, for every bucket page pn of the directory with local depth d *)
(* and every key k stored in it, slot Hasher(k, d) points to pn.           *)
C7_EntriesHashToTheirBucket ==
    (hRet.op = "Insert" /\ hRet.res = "OK") =>
        \A s \in 1..Len(hBuckets) :
            LET pn == hBuckets[s]
                b == hPages[pn + 1]
            IN \A i \in 1..Len(b.entries) :
                  hBuckets[Hasher(b.entries[i][1], b.depth) + 1] = pn

(* C8: Select returns each stored entry exactly once: as a multiset its    *)
(* result equals the entries inserted and not deleted, also when several   *)
(* directory slots point to the same bucket.                               *)
C8_SelectReturnsEachEntryOnce ==
    (hRet.op = "Select" /\ hRet.res = "OK") =>
        \A e \in Keys \X Values : Occurrences(hRet.out, e) = hLive[e]

Stored(k) == \E v \in Values : hLive[<<k, v>>] > 0

(* C21: Find of a key that is not stored fails with NOT_FOUND, it never    *)
(* returns success with an empty entry; Find of a stored key returns an    *)
(* entry of that key that is stored.                                       *)
C21_FindAbsentIsNotFound ==
    hRet.op = "Find" /\ hRet.res # "NO_FRAMES" =>
        IF Stored(hRet.key)
        THEN /\ hRet.res = "OK"
             /\ Len(hRet.out) = 1
             /\ hRet.out[1][1] = hRet.key
             /\ hLive[hRet.out[1]] > 0
        ELSE hRet.res = "NOT_FOUND"

(* C36: in every reachable table and for every key that Insert accepts,   *)
(* the splits the insert sets off never call Split on a bucket without     *)
(* entries (the keys of the model all differ in their full hash value).    *)
C36_SplitNeverOnEmptyBucket ==
    \A k \in Keys :
        LET pn == hBuckets[Hasher(k, hDepth) + 1] IN
        (CanPin(hPins, pn) /\ BucketFind(hPages[pn + 1].entries, k) = 0) =>
            ~InsertAndSplit(k, 0).emp

(* C37: every hash-table operation returns with every page it pinned      *)
(* unpinned again: the pin count of every bucket page after the call is    *)
(* its pin count before the call, and a page the call created is left      *)
(* with pin count 0.                                                       *)
C37_PinsRestored ==
    [][/\ \A i \in 1..Len(hPins) : hPins'[i] = hPins[i]
       /\ \A i \in (Len(hPins) + 1)..Len(hPins') : hPins'[i] = 0]_vars

(* The slots of a directory that point to bucket page pn.                  *)
SlotsOf(buckets, pn) == {x \in 1..Len(buckets) : buckets[x] = pn}

(* A directory of 2^D slots in which every bucket's stored local depth d   *)
(* is at most D and the bucket is referenced by exactly the slots that     *)
(* agree with it on their low d bits, 2^(D-d) of them.                     *)
DirectoryShape(D, buckets, pages) ==
    /\ Len(buckets) = 2 ^ D
    /\ \A s \in 1..Len(buckets) :
          LET pn == buckets[s]
              d == pages[pn + 1].depth
          IN /\ d <= D
             /\ SlotsOf(buckets, pn) =
                    {x \in 1..Len(buckets) : (x - 1) % (2 ^ d) = (s - 1) % (2 ^ d)}
             /\ Cardinality(SlotsOf(buckets, pn)) = 2 ^ (D - d)

(* C38: every hash-table state an operation leaves has the directory       *)
(* shape (2^D slots, local depths at most D, a bucket of local depth d     *)
(* behind exactly the 2^(D-d) slots that agree on their low d bits), and   *)
(* after an insert that split one bucket once the old and the new bucket   *)
(* both have local depth d+1.                                              *)
C38_DirectoryInvariants ==
    [][/\ DirectoryShape(hDepth', hBuckets', hPages')
       /\ Len(hPages') = Len(hPages) + 1 =>
              \E pn \in 0..(Len(hPages) - 1) :
                  /\ hPages'[pn + 1].depth = hPages[pn + 1].depth + 1
                  /\ hPages'[Len(hPages) + 1].depth = hPages[pn + 1].depth + 1]_vars

(***************************************************************************)
(*                       Claims about the B+-tree                          *)
(***************************************************************************)
(* The live entries in ascending key order.                                *)
RECURSIVE LiveFrom(_)
LiveFrom(k) ==
    IF k > MaxBKey THEN <<>>
    ELSE (IF bLive[k] = NoValue THEN <<>> ELSE <<(<<k, bLive[k]>>)>>) \o LiveFrom(k + 1)

(* The entries of the leaves under node pn, left to right.                 *)
RECURSIVE Subtree(_, _)
Subtree(pn, i) ==
    LET node == bNodes[pn + 1] IN
    IF node.type = "leaf" THEN node.entries
    ELSE IF i > Len(node.children) THEN <<>>
    ELSE Subtree(node.children[i], 1) \o Subtree(pn, i + 1)

(* C6: the table behaves as an ordered map. After any sequence of Insert,  *)
(* Update and Delete, with splits of leaves and of internal nodes, the     *)
(* tree holds exactly the live entries (so an Insert that fails on a       *)
(* present key changed nothing), Find(k) returns the live value of k and   *)
(* NOT_FOUND when there is none, Insert of a present key fails, and a full *)
(* scan returns exactly the live entries in ascending key order.           *)
C6_OrderedMap ==
    /\ Subtree(ROOT_PN, 1) = LiveFrom(1)
    /\ bRet.op = "Find" =>
          bRet.out = (IF bLive[bRet.key] = NoValue THEN <<>>
                      ELSE <<(<<bRet.key, bLive[bRet.key]>>)>>)
    /\ bRet.op = "Find" => (bRet.res = "NOT_FOUND" <=> bLive[bRet.key] = NoValue)
    /\ (bRet.op = "Insert" /\ bRet.res # "OK") => bRet.res = "DUPLICATE"
    /\ bRet.op = "Select" => bRet.out = LiveFrom(1)

(* C39: in every tree state reachable by inserts and deletes, the scan     *)
(* that starts at TableStart and calls StepForward until it returns true   *)
(* visits every entry exactly once in ascending key order, and the initial *)
(* cursor is not at the end while the tree holds an entry.                 *)
C39_CursorVisitsEveryEntry ==
    /\ ScanFrom(bNodes, TableStart(bNodes), <<>>) = LiveFrom(1)
    /\ LiveFrom(1) # <<>> => ~TableStart(bNodes).isEnd

(* C18: for all lo <= hi and every state of the tree, TableFindRange      *)
(* ends and returns exactly the entries with lo <= key < hi in ascending   *)
(* key order: nothing when no key lies in the range, also when hi is       *)
(* greater than every key and when the range crosses leaves.               *)
C18_FindRangeExact ==
    bRet.op = "FindRange" =>
        /\ bRet.res = "OK"
        /\ bRet.out = SelectSeq(LiveFrom(1),
                                LAMBDA e : bRet.key <= e[1] /\ e[1] < bRet.hi)

Leaves == {pn \in 0..(Len(bNodes) - 1) : bNodes[pn + 1].type = "leaf"}

LeafKeys(pn) == {bNodes[pn + 1].entries[i][1] : i \in 1..Len(bNodes[pn + 1].entries)}

(* The leaves met from leaf pn on by following right-sibling pointers, at  *)
(* most n of them.                                                         *)
RECURSIVE Chain(_, _)
Chain(pn, n) ==
    IF n = 0 \/ pn < 0 THEN <<>>
    ELSE <<pn>> \o Chain(bNodes[pn + 1].right, n - 1)

(* What delete(key) must leave of the entries of a leaf: the same entries  *)
(* when the key is absent, the entries without that key, one fewer and in  *)
(* their order, when it is present.                                        *)
DeleteFrame(entries, key, after, numKeys) ==
    IF \E i \in 1..Len(entries) : entries[i][1] = key
    THEN /\ after = SelectSeq(entries, LAMBDA e : e[1] # key)
         /\ numKeys = Len(entries) - 1
    ELSE /\ after = entries
         /\ numKeys = Len(entries)

(* C40: for every leaf of every reachable tree and every key, both copies  *)
(* of LeafNode.delete leave the entries and numKeys unchanged when the key *)
(* is absent, and remove exactly that entry, keeping the order of the      *)
(* others, when it is present.  The second copy is held to this only for   *)
(* keys whose position lies inside the entries, where it reads no cell     *)
(* past them.                                                              *)
C40_LeafDeleteFrame ==
    \A pn \in Leaves : \A key \in BKeys :
        LET entries == bNodes[pn + 1].entries IN
        /\ DeleteFrame(entries, key, LeafDelete(entries, key),
                       Len(LeafDelete(entries, key)))
        /\ LeafSearch(entries, key) < Len(entries) =>
              \A r \in LeafDeleteCopy(entries, key) :
                  DeleteFrame(entries, key, r.entries, r.numKeys)

(* C19: after any sequence of inserts and deletes, every key of a leaf is  *)
(* smaller than every key of its right sibling, and following the          *)
(* right-sibling pointers from the leftmost leaf visits every leaf exactly *)
(* once.                                                                   *)
C19_LeafChainOrdered ==
    LET chain == Chain(LeftmostLeaf(bNodes, ROOT_PN), Len(bNodes) + 1) IN
    /\ \A L \in Leaves :
          bNodes[L + 1].right # NoSibling =>
             /\ bNodes[L + 1].right \in Leaves
             /\ \A a \in LeafKeys(L), b \in LeafKeys(bNodes[L + 1].right) : a < b
    /\ Range(chain) = Leaves
    /\ Len(chain) = Cardinality(Leaves)

(* Four leaves, one of them emptied by Delete between two leaves that hold *)
(* keys.                                                                   *)
C19_Witness ==
    /\ Cardinality(Leaves) >= 4
    /\ \E L \in Leaves :
          /\ LeafKeys(L) # {}
          /\ bNodes[L + 1].right # NoSibling
          /\ LeafKeys(bNodes[L + 1].right) = {}
          /\ bNodes[bNodes[L + 1].right + 1].right # NoSibling
          /\ LeafKeys(bNodes[bNodes[L + 1].right + 1].right) # {}

Internals == {pn \in 0..(Len(bNodes) - 1) : bNodes[pn + 1].type = "internal"}

KeysUnder(pn) == {Subtree(pn, 1)[i][1] : i \in 1..Len(Subtree(pn, 1))}

(* C20 as the spec states it: for every internal node, routing key k_i and *)
(* children c_i, c_{i+1}, the keys under c_i are <= k_i and the keys under *)
(* c_{i+1} are > k_i.                                                      *)
C20_RoutingAsStated ==
    \A pn \in Internals : \A i \in 1..Len(bNodes[pn + 1].keys) :
        /\ \A k \in KeysUnder(bNodes[pn + 1].children[i]) : k <= bNodes[pn + 1].keys[i]
        /\ \A k \in KeysUnder(bNodes[pn + 1].children[i + 1]) : k > bNodes[pn + 1].keys[i]

(* C20, amended: for every internal node, routing key k_i and children     *)
(* c_i, c_{i+1}, the keys under c_i are < k_i and the keys under c_{i+1}   *)
(* are >= k_i.                                                             *)
C20_RoutingStrictLeft ==
    \A pn \in Internals : \A i \in 1..Len(bNodes[pn + 1].keys) :
        /\ \A k \in KeysUnder(bNodes[pn + 1].children[i]) : k < bNodes[pn + 1].keys[i]
        /\ \A k \in KeysUnder(bNodes[pn + 1].children[i + 1]) : k >= bNodes[pn + 1].keys[i]

(* The root is above an internal node, and a routing key is itself a key   *)
(* of the subtree to its right.                                            *)
C20_Witness ==
    /\ \E c \in Internals : c # ROOT_PN
    /\ \E pn \in Internals : \E i \in 1..Len(bNodes[pn + 1].keys) :
          /\ bNodes[pn + 1].keys[i] \in KeysUnder(bNodes[pn + 1].children[i + 1])
          /\ KeysUnder(bNodes[pn + 1].children[i]) # {}

(***************************************************************************)
(*                        Claims about recovery                            *)
(***************************************************************************)
(* The edit record at position i belongs to a transaction whose commit     *)
(* record is in the log.                                                   *)
CommittedEdit(logs, i) ==
    \E j \in (i + 1)..Len(logs) :
        /\ logs[j].type = "commit" /\ logs[j].id = logs[i].id
        /\ \A m \in (i + 1)..(j - 1) :
              ~(logs[m].type \in {"start", "commit"} /\ logs[m].id = logs[i].id)

(* The table after replaying, in log order, the edits of committed         *)
(* transactions from record i on.                                          *)
RECURSIVE CommittedReplay(_, _, _)
CommittedReplay(logs, i, table) ==
    IF i > Len(logs) THEN table
    ELSE CommittedReplay(logs, i + 1,
            IF logs[i].type = "edit" /\ CommittedEdit(logs, i)
            THEN [table EXCEPT ![logs[i].key] = logs[i].newval]
            ELSE table)

(* C1: for any log of a run that crashed at an arbitrary point, after      *)
(* Recover the table equals the replay, in log order, of exactly the edits *)
(* of the transactions whose commit record is in the log.                  *)
C1_RecoverEqualsCommittedReplay ==
    rRet # "none" =>
        /\ rRet = "ok"
        /\ rTable = CommittedReplay(rCrashLog, 1, [k \in RKeys |-> Absent])

(* The last edit record of key k in the log, 0 when there is none.         *)
LastEdit(logs, k) ==
    LET es == {i \in 1..Len(logs) : logs[i].type = "edit" /\ logs[i].key = k}
    IN IF es = {} THEN 0 ELSE MaxOf(es)

(* C2: edits whose records and commit record were in the log before the    *)
(* crash are visible after a restart through Prime followed by Recover,    *)
(* whatever was flushed and also when Prime restored a shadow directory:   *)
(* a key whose last edit is committed has that edit's value.               *)
C2_CommittedEditsSurvivePrime ==
    (rHow = "prime" /\ rRet # "none") =>
        \A k \in RKeys :
            LET i == LastEdit(rCrashLog, k) IN
            (i # 0 /\ CommittedEdit(rCrashLog, i)) => rTable[k] = rCrashLog[i].newval

====
